---- MODULE Spec2Model ----
(***************************************************************************)
(* Gateway layer of src/app.py: the rate governor (_wait_throttle), the    *)
(* usage tracker (_update_usage_and_cooldown, _respect_cooldown), the      *)
(* request executor (graph_get / graph_post / graph_post_multipart with    *)
(* _handle_429_and_maybe_retry), the duplicate guard                       *)
(* (_recent_content_guard), the credential resolver (get_page_access_token *)
(* over _env_get_tokens and the persisted store) and the reel upload       *)
(* (api_post_reel).                                                        *)
(*                                                                         *)
(* Time is counted in ticks, TicksPerSec ticks to the second, so that      *)
(* int(pytime.time()) is a real truncation.  The clock (now) and the       *)
(* float timestamps of last_call_ts are in ticks; cooldown_until and the   *)
(* Retry-After hints are whole seconds, as in the code.                    *)
(***************************************************************************)
EXTENDS Integers, Sequences, FiniteSets, TLC

\* ------------------------------------------------------------------ bounds
TicksPerSec == 2
StartSec == 1000
MaxCalls == 2
MaxPaceCalls == 3
MaxConcCalls == 2
MaxTicks == 3
MaxGuardCalls == 3
MaxResolves == 2
\* requests to post a text made in a run
MaxPosts == 2
\* requests made by one session in a run
MaxGateRequests == 4

\* ------------------------------------------------------- program constants
GLOBAL_MIN_INTERVAL == 1
PER_PAGE_MIN_INTERVAL == 2
USAGE_HIGH == 90
USAGE_WARN == 80
COOLDOWN_HIGH == 300
COOLDOWN_WARN == 120
RETRY_AFTER_MALFORMED == 300
MIN_429_COOLDOWN == 120
SHORT_HINT == 5
WITHIN_SEC == 3600

Secs(n) == n * TicksPerSec

Max(a, b) == IF a >= b THEN a ELSE b

Max3(a, b, c) == Max(a, Max(b, c))

\* int(pytime.time()): the clock reading (ticks) truncated to whole seconds
IntSec(t) == t \div TicksPerSec

\* ------------------------------------------------------------------ inputs
Threads == {1, 2}

Pages == {"1", "2"}

\* _ctx_key_for_page: f"page:{page_id}"
ctx_key_for_page(p) == IF p = "1" THEN "page:1" ELSE "page:2"

PageKeys == {ctx_key_for_page(p) : p \in Pages}

Keys == {"global"} \cup PageKeys

NoCtx == "none"

\* ctx_key of a call: None, or the key of a page
Contexts == {NoCtx} \cup PageKeys

\* key.startswith("page:")
IsPageKey(key) == key \in PageKeys

\* a header value: absent, present but not of the expected form, or parsed
Absent == [kind |-> "absent", val |-> 0, call_count |-> 0, total_time |-> 0,
           total_cputime |-> 0]

Malformed == [kind |-> "malformed", val |-> 0, call_count |-> 0, total_time |-> 0,
              total_cputime |-> 0]

\* a usage header that is a JSON object with a field that is not a number,
\* next to a call_count of 95: int() of that field raises at line 160
NonNumeric == [kind |-> "nonnumeric", val |-> 0, call_count |-> 95, total_time |-> 0,
               total_cputime |-> 0]

\* Retry-After: <n>
Seconds(n) == [kind |-> "int", val |-> n, call_count |-> 0, total_time |-> 0,
               total_cputime |-> 0]

\* X-App-Usage / X-Page-Usage: {"call_count": cc, "total_time": tt, "total_cputime": ct}
\* (a field the header leaves out reads as 0, u.get(..., 0))
Usage(cc, tt, ct) == [kind |-> "json", val |-> 0, call_count |-> cc, total_time |-> tt,
                      total_cputime |-> ct]

RetryAfterValues == {-1, 3, 5, 6, 400}

\* Retry-After header of a 429: absent, not an integer, or an integer of seconds
RetryAfterHeaders == {Absent, Malformed} \cup {Seconds(n) : n \in RetryAfterValues}

NoUsage == <<Absent, Absent>>

\* (X-App-Usage, X-Page-Usage) of a response that reports a high utilisation
HighUsageCases == { <<Usage(85, 0, 0), Absent>>, <<Absent, Usage(0, 0, 95)>> }

Response(st, ra, us, ok) ==
    [status |-> st, retry_after |-> ra, app |-> us[1], page |-> us[2], parseable |-> ok]

\* the answers of the upstream: 200, an error status, or 429 with its hint;
\* with or without usage telemetry; with a JSON body or not
Responses ==
    { Response(429, ra, NoUsage, TRUE) : ra \in RetryAfterHeaders }
    \cup { Response(429, Seconds(n), us, TRUE) : n \in {3, 6}, us \in HighUsageCases }
    \cup { Response(200, Absent, us, TRUE) : us \in HighUsageCases }
    \cup { Response(st, Absent, NoUsage, ok) : st \in {200, 400}, ok \in BOOLEAN }
    \cup { Response(400, Absent, us, TRUE) : us \in HighUsageCases }

NoResp == Response(0, Absent, NoUsage, TRUE)

\* requests.RequestException: no response at all
TransportFailure == Response(-1, Absent, NoUsage, TRUE)

\* what a call hands back to its caller: (body, status), or an exception
Result(k, st, ra) == [kind |-> k, status |-> st, retry_after |-> ra]

NoResult == Result("none", 0, 0)

\* ({"error": "RATE_LIMIT", "retry_after": ra}, 429)
RateLimit(ra) == Result("RATE_LIMIT", 429, ra)

\* an exception that leaves the function
Raised == Result("raised", 0, 0)

\* submission classes of the duplicate guard (lines 1209, 1231)
Kinds == {"post", "photo_caption"}

\* content strings, as sequences of characters
Contents == { <<"a">>, <<" ", "a", " ">>, <<"b">> }

IsSpace(c) == c = " "

RECURSIVE StripLeft(_)
StripLeft(s) == IF s # <<>> /\ IsSpace(Head(s)) THEN StripLeft(Tail(s)) ELSE s

RECURSIVE StripRight(_)
StripRight(s) ==
    IF s # <<>> /\ IsSpace(s[Len(s)]) THEN StripRight(SubSeq(s, 1, Len(s) - 1)) ELSE s

\* str.strip()
Strip(s) == StripRight(StripLeft(s))

\* _hash_content: sha256 of the stripped string, taken as free of collisions
hash_content(s) == <<"sha256">> \o Strip(s)

\* (kind, key, content hash) of a submission
Triple(kind, key, content) ==
    [type |-> kind, key |-> key, content_hash |-> hash_content(content)]

Triples == {Triple(k, p, c) : k \in Kinds, p \in Pages, c \in Contents}

\* no submission of the triple accepted so far
Never == 0 - 1

NoGuard == [n |-> 0, kind |-> "post", key |-> "1", content |-> <<>>, at |-> 0,
            ret |-> FALSE, prev |-> Never]

\* no _recent_content_guard call entered
NoGuardCall == [pc |-> "idle", kind |-> "post", key |-> "1", content |-> <<>>,
                now_s |-> 0, kept |-> <<>>, ret |-> FALSE]

\* no credential: None, or an empty string
NoToken == ""

\* a map from page ids to credentials, NoToken where the id is no key
NoPages == [p \in Pages |-> NoToken]

PageMap(p, tok) == [NoPages EXCEPT ![p] = tok]

\* PAGE_TOKENS: one "pid<sep>token" item, or a bare token ("loose", no separator)
Pair(pid, tok) == [pid |-> pid, tok |-> tok, sep |-> TRUE]

Loose(tok) == [pid |-> "", tok |-> tok, sep |-> FALSE]

\* PAGE_TOKENS: empty, a JSON object, or items separated by commas or newlines
EnvConfigs ==
    { [form |-> "empty", items |-> <<>>],
      [form |-> "json", items |-> <<Pair("1", "envA"), Pair("2", "")>>],
      [form |-> "text", items |-> <<Pair("1", "envOld"), Loose("looseB"), Pair("1", "envA"),
                                    Pair("", "envC")>>],
      [form |-> "text", items |-> <<Loose("looseA"), Loose("looseB")>>] }

\* the page that owns a credential: the id its identity lookup (GET me) returns
OwnerOf(tok) == IF tok = "looseA" THEN "1" ELSE IF tok = "looseB" THEN "2" ELSE ""

\* tokens.json at the start of the process: store["pages"]
Stores == { NoPages, PageMap("1", "storeA"), PageMap("2", "storeB") }

\* one account of the answer of GET me/accounts
Account(pid, pat) == [id |-> pid, access_token |-> pat]

\* the JSON body of a 200 answer of GET me/accounts: an object with its "data"
\* list, or a value that is no object
AccountBodies ==
    { [dict |-> TRUE, data |-> <<>>],
      [dict |-> FALSE, data |-> <<>>],
      [dict |-> TRUE, data |-> <<Account("1", "liveA")>>],
      [dict |-> TRUE, data |-> <<Account("2", "liveB")>>],
      [dict |-> TRUE, data |-> <<Account("1", "liveA"), Account("2", "liveB")>>],
      [dict |-> TRUE, data |-> <<Account("1", ""), Account("2", "liveB")>>] }

NoBody == [dict |-> FALSE, data |-> <<>>]

NoResolve == [pc |-> "idle", page |-> "1", ret |-> NoToken, raised |-> FALSE,
              hit |-> "none", before |-> NoPages, body |-> NoBody, netcalls |-> 0,
              loaded_at |-> 0, saved |-> FALSE, stale |-> FALSE]

\* no _env_resolve_loose_tokens call made: the index of the token being looked
\* up, the number of lookups entered, the pages resolved, an exception leaving
NoLoose == [pc |-> "idle", i |-> 0, lookups |-> 0, pages |-> 0, raised |-> FALSE]

\* the paths of the requests, as their segments: /api/pin/status, /api/pin/login,
\* /api/pin/logout, /api/pages, /api/, /api and /
PinStatusPath == <<"api", "pin", "status">>

PinLoginPath == <<"api", "pin", "login">>

PinLogoutPath == <<"api", "pin", "logout">>

\* _require_pin_for_api, line 67
PinAllowlist == {PinStatusPath, PinLoginPath, PinLogoutPath}

OtherPaths == { <<"api", "pages">>, <<"api", "">>, <<"api">>, <<>> }

\* the values of the environment variable ACCESS_PIN
PinEnvs == { <<>>, <<" ">>, <<"7">>, <<"7", " ">> }

\* the bodies of a login request: a JSON object with a pin, or a body that
\* request.get_json or .strip() raises on
LoginBodies ==
    {[ok |-> TRUE, pin |-> p] : p \in { <<>>, <<" ">>, <<"7">>, <<" ", "7">>, <<"8">> }}
        \cup {[ok |-> FALSE, pin |-> <<>>]}

NoPinBody == [ok |-> TRUE, pin |-> <<>>]

\* no request made yet by a new session: ACCESS_PIN as read at line 42, the
\* pin_ok key of the session, the number of requests, the last request with
\* its answer, and the requests made to /api/pin/login and /api/pin/logout
NoGate == [access_pin |-> <<>>, pin_ok |-> FALSE, n |-> 0,
           last |-> [path |-> <<>>, body |-> NoPinBody, kind |-> "none", status |-> 0,
                     reached |-> FALSE],
           events |-> <<>>]

\* no api_post_to_page request made: the number of requests so far, the
\* stripped message, the time of the request, the time the triple was last
\* accepted at, the gateway calls made before it, its answer and the answer
\* of the request before
NoPost == [pc |-> "idle", n |-> 0, page |-> "1", message |-> <<>>, at |-> 0,
           prev |-> Never, calls_at |-> 0, ret |-> [kind |-> "none", status |-> 0],
           last |-> [kind |-> "none", status |-> 0]]

\* what api_post_reel hands back: (jsonify(body), status), or an exception
ReelResult(k, st) == [kind |-> k, status |-> st]

NoReel == [pc |-> "idle", page |-> "1", has_video |-> FALSE, ret |-> ReelResult("none", 0),
           starts |-> 0, transfers |-> 0, finishes |-> 0, permalinks |-> 0,
           transfer_at |-> 0, transfer_cooldown |-> 0, ru |-> 0,
           st1 |-> 0, start_body |-> "none", st3 |-> 0, permalink |-> NoResult]

\* the JSON body of a 200 answer to the start call
StartBodies == {"video_id", "no_video_id", "not_dict"}

\* the answer of rupload.facebook.com to the binary transfer: a status, or a
\* failure of the transport (status -1)
RuploadStatuses == {200, 400, 429, 500, 0 - 1}

\* ------------------------------------------------------------------- state
\* SETTINGS (lines 44-54) and the clock
VARIABLES now, cooldown_until, last_call_ts, last_usage
\* the callers: position, arguments and locals, response in hand, value returned
VARIABLES pc, call, tkey, wake, resp, result, calls
\* what a call-counting transport and a probe on the tracker observe
VARIABLES exchanges, issue_ts, issued, handled

\* SETTINGS["_recent_posts"], the last _recent_content_guard call, and for
\* each triple the time of its last accepted submission
VARIABLES recent_posts, guard, accepted
\* the _recent_content_guard call each handler is in the middle of
VARIABLES gcall

settings == <<cooldown_until, last_call_ts, last_usage>>

locals == <<call, tkey, wake, resp>>

probes == <<exchanges, issue_ts, issued, handled>>

\* PAGE_TOKENS, the persisted store["pages"], the get_page_access_token call of
\* each handler, and the number of such calls made
VARIABLES env, store, resolver, resolves
\* the number of save_tokens calls made so far
VARIABLES saves
\* the _env_resolve_loose_tokens call of each handler
VARIABLES lookup

\* the api_post_reel request of each handler
VARIABLES reel
\* the api_post_to_page request of each handler
VARIABLES post
\* ACCESS_PIN, the session of one browser and the requests it has made
VARIABLES gate

guard_vars == <<recent_posts, guard, accepted, gcall>>

resolver_vars == <<env, store, resolver, resolves, saves, lookup>>

\* the state outside the gateway
others == <<guard_vars, resolver_vars, reel, post, gate>>

vars == <<now, settings, pc, locals, result, calls, probes, others>>

NoCall == [ctx_key |-> NoCtx, attempts |-> 0, entered_at |-> 0, entered_cooldown |-> 0,
           first |-> NoResp]

NoIssue == [at |-> 0, ctx |-> NoCtx, cooldown |-> 0, attempt |-> 0, since_any |-> -1,
            since_ctx |-> -1, thread |-> 0]

\* the gateway and the guard at the start of the process
ProcessInit ==
    /\ now = Secs(StartSec)
    /\ cooldown_until = 0
    /\ last_call_ts = [k \in Keys |-> 0]
    /\ last_usage = <<Absent, Absent>>
    /\ pc = [t \in Threads |-> "idle"]
    /\ call = [t \in Threads |-> NoCall]
    /\ tkey = [t \in Threads |-> "global"]
    /\ wake = [t \in Threads |-> 0]
    /\ resp = [t \in Threads |-> NoResp]
    /\ result = [t \in Threads |-> NoResult]
    /\ calls = 0
    /\ exchanges = [t \in Threads |-> 0]
    /\ issue_ts = [k \in Keys |-> 0]
    /\ issued = NoIssue
    /\ handled = [at |-> 0, before |-> 0]
    /\ recent_posts = <<>>
    /\ guard = NoGuard
    /\ accepted = [x \in Triples |-> Never]
    /\ gcall = [t \in Threads |-> NoGuardCall]

\* no get_page_access_token call and no api_post_reel request made yet
ResolverIdle ==
    /\ resolver = [t \in Threads |-> NoResolve]
    /\ resolves = 0
    /\ saves = 0
    /\ lookup = [t \in Threads |-> NoLoose]
    /\ reel = [t \in Threads |-> NoReel]
    /\ post = [t \in Threads |-> NoPost]
    /\ gate = NoGate

\* a process started without PAGE_TOKENS and without tokens.json
Init ==
    /\ ProcessInit
    /\ env = [form |-> "empty", items |-> <<>>]
    /\ store = NoPages
    /\ ResolverIdle

\* ------------------------------------------------------------ pure helpers
\* mutant: the interval is left out of the sum, so that no wait is ever due
SleepFor_NoGap(key, lts, t) == Max3(0, lts[key] - t, lts["global"] - t)

\* _wait_throttle, lines 117-125: the delay computed from the timestamps read
SleepFor(key, lts, t) ==
    LET last_ts == lts[key]
        gap == IF IsPageKey(key) THEN Secs(PER_PAGE_MIN_INTERVAL)
                                 ELSE Secs(GLOBAL_MIN_INTERVAL)
        g_last == lts["global"]
        g_gap == Secs(GLOBAL_MIN_INTERVAL)
    IN  Max3(0, last_ts + gap - t, g_last + g_gap - t)

\* mutant: only the timestamp of the key waited for is written
Stamp_KeyOnly(key, lts, t) == [lts EXCEPT ![key] = t]

\* _wait_throttle, lines 128-129: both timestamps written after the wait
Stamp(key, lts, t) == [lts EXCEPT ![key] = t, !["global"] = t]

\* max(int(call_count), int(total_time), int(total_cputime))
UsageTop(u) == Max3(u.call_count, u.total_time, u.total_cputime)

\* mutant: the upper threshold is compared with > instead of >=
UsageCooldown_StrictHigh(cu, u, t) ==
    IF u.kind # "json" THEN cu
    ELSE IF UsageTop(u) > USAGE_HIGH THEN Max(cu, IntSec(t) + COOLDOWN_HIGH)
    ELSE IF UsageTop(u) >= USAGE_WARN THEN Max(cu, IntSec(t) + COOLDOWN_WARN)
    ELSE cu

\* mutant: the new deadline is assigned without max() over the current one
UsageCooldown_Assign(cu, u, t) ==
    IF u.kind # "json" THEN cu
    ELSE IF UsageTop(u) >= USAGE_HIGH THEN IntSec(t) + COOLDOWN_HIGH
    ELSE IF UsageTop(u) >= USAGE_WARN THEN IntSec(t) + COOLDOWN_WARN
    ELSE cu

\* mutant: the fields are compared as soon as the header is a JSON object
UsageCooldown_Unvalidated(cu, u, t) ==
    IF u.kind \in {"absent", "malformed"} THEN cu
    ELSE IF UsageTop(u) >= USAGE_HIGH THEN Max(cu, IntSec(t) + COOLDOWN_HIGH)
    ELSE IF UsageTop(u) >= USAGE_WARN THEN Max(cu, IntSec(t) + COOLDOWN_WARN)
    ELSE cu

\* _update_usage_and_cooldown, lines 155-165, for one usage header; a header
\* that json.loads or int() rejects is skipped by the except clause
UsageCooldown(cu, u, t) ==
    IF u.kind # "json" THEN cu
    ELSE IF UsageTop(u) >= USAGE_HIGH THEN Max(cu, IntSec(t) + COOLDOWN_HIGH)
    ELSE IF UsageTop(u) >= USAGE_WARN THEN Max(cu, IntSec(t) + COOLDOWN_WARN)
    ELSE cu

\* mutant: the headers of a response that is not a success are not read
update_usage_and_cooldown_SuccessOnly(cu, r, t) ==
    IF r.status = 200 THEN UsageCooldown(UsageCooldown(cu, r.app, t), r.page, t) ELSE cu

\* _update_usage_and_cooldown: the app header, then the page header (each is
\* met under both spellings of its name; the second pass changes nothing)
update_usage_and_cooldown(cu, r, t) ==
    UsageCooldown(UsageCooldown(cu, r.app, t), r.page, t)

\* mutant: the deadline is not read
respect_cooldown_Unread(cu, t) == 0

\* mutant: the test of the deadline is inverted
respect_cooldown_Inverted(cu, t) == IF cu < IntSec(t) THEN cu - IntSec(t) ELSE 0

\* _respect_cooldown: seconds of cooldown left, 0 when none
respect_cooldown(cu, t) == IF IntSec(t) < cu THEN cu - IntSec(t) ELSE 0

\* mutant: an absent header takes the default of a malformed one
ParseRetryAfter_AbsentAsMalformed(h) ==
    IF h.kind = "int" THEN h.val ELSE RETRY_AFTER_MALFORMED

\* _handle_429_and_maybe_retry, lines 177-180: int(headers.get("Retry-After", "0") or "0")
ParseRetryAfter(h) ==
    IF h.kind = "int" THEN h.val
    ELSE IF h.kind = "absent" THEN 0
    ELSE RETRY_AFTER_MALFORMED

\* mutant: the clock reading is left out of the new deadline
Cooldown429_NoClock(cu, ra, t) == Max(cu, Max(ra, MIN_429_COOLDOWN))

\* mutant: the hint is used without the floor of 120 seconds
Cooldown429_HintOnly(cu, ra, t) == Max(cu, IntSec(t) + ra)

\* _handle_429_and_maybe_retry, line 181
Cooldown429(cu, ra, t) == Max(cu, IntSec(t) + Max(ra, MIN_429_COOLDOWN))

\* mutant: the attempt counter is not consulted
ShouldRetry_AnyAttempt(attempt, ra) == ra <= SHORT_HINT

\* _handle_429_and_maybe_retry, line 182
ShouldRetry(attempt, ra) == attempt = 0 /\ ra <= SHORT_HINT

\* _handle_429_and_maybe_retry, line 183: pytime.sleep(ra or 1)
RetrySleep(ra) == IF ra # 0 THEN ra ELSE 1

\* mutant: an entry exactly within_sec old is pruned
Fresh_Strict(x, now_s, within_sec) == now_s - x.ts < within_sec

\* _recent_content_guard, line 138: the entries kept by the pruning
Fresh(x, now_s, within_sec) == now_s - x.ts <= within_sec

\* mutant: the log is never pruned
Prune_KeepAll(log, now_s, within_sec) == log

\* _recent_content_guard, line 138: the log rebuilt from its fresh entries
Prune(log, now_s, within_sec) == SelectSeq(log, LAMBDA x : Fresh(x, now_s, within_sec))

\* mutant: the kind of the submission is not compared
Matches_AnyKind(x, kind, key, h) == x.key = key /\ x.content_hash = h

\* _recent_content_guard, line 140
Matches(x, kind, key, h) == x.type = kind /\ x.key = key /\ x.content_hash = h

\* mutant: a submission that is not flagged is not recorded either
Record_Nothing(log, dup, entry) == log

\* mutant: a flagged submission moves the matched entry to the present
Record_Refresh(log, dup, entry) ==
    IF dup
    THEN [i \in DOMAIN log |->
             IF Matches(log[i], entry.type, entry.key, entry.content_hash)
             THEN entry ELSE log[i]]
    ELSE Append(log, entry)

\* _recent_content_guard, lines 139-143: the log after the scan, which returns
\* at the first match and appends the submission when there is none
Record(log, dup, entry) == IF dup THEN log ELSE Append(log, entry)

\* _env_get_tokens, lines 271-272 and 277-284: the items with a page id and a
\* token, a later item replacing an earlier one of the same id
RECURSIVE EnvMapping(_)
EnvMapping(items) ==
    IF items = <<>> THEN NoPages
    ELSE LET x == items[Len(items)]
             mapping == EnvMapping(SubSeq(items, 1, Len(items) - 1))
         IN  IF x.sep /\ x.pid # "" /\ x.tok # "" THEN [mapping EXCEPT ![x.pid] = x.tok]
                                                  ELSE mapping

\* _env_get_tokens, lines 285-286: the items without a separator
RECURSIVE EnvLoose(_)
EnvLoose(items) ==
    IF items = <<>> THEN <<>>
    ELSE IF Head(items).sep THEN EnvLoose(Tail(items))
    ELSE <<Head(items).tok>> \o EnvLoose(Tail(items))

\* _env_get_tokens: (mapping, loose_tokens); a JSON object yields no loose tokens
env_get_tokens(e) ==
    [mapping |-> IF e.form = "empty" THEN NoPages ELSE EnvMapping(e.items),
     loose_tokens |-> IF e.form = "text" THEN EnvLoose(e.items) ELSE <<>>]

\* mutant: the persisted store is not consulted
LocalHit_EnvOnly(mp, pages, page_id) == IF mp[page_id] # NoToken THEN "env" ELSE "none"

\* mutant: the persisted store is consulted before the environment map
LocalHit_StoreFirst(mp, pages, page_id) ==
    IF pages[page_id] # NoToken THEN "store"
    ELSE IF mp[page_id] # NoToken THEN "env"
    ELSE "none"

\* get_page_access_token, lines 313-320: the source that holds the page id
LocalHit(mp, pages, page_id) ==
    IF mp[page_id] # NoToken THEN "env"
    ELSE IF pages[page_id] # NoToken THEN "store"
    ELSE "none"

\* get_page_access_token, lines 323-326: the accounts with an id and a token
RECURSIVE Found(_)
Found(data) ==
    IF data = <<>> THEN NoPages
    ELSE LET p == data[Len(data)]
             found == Found(SubSeq(data, 1, Len(data) - 1))
         IN  IF p.id # "" /\ p.access_token # NoToken
             THEN [found EXCEPT ![p.id] = p.access_token]
             ELSE found

\* get_page_access_token, line 327: if found: store["pages"] = found
StoreAfterDiscovery(pages, found) == IF found = NoPages THEN pages ELSE found

\* mutant: the body of the start answer is not looked at
StartFailed_StatusOnly(st1, body) == st1 # 200

\* api_post_reel, line 1280: the start call gave no upload identifier
StartFailed(st1, body) == st1 # 200 \/ body # "video_id"

\* mutant: the transfer is paced under the context of the target page
TransferKey_Page(page_id) == ctx_key_for_page(page_id)

\* api_post_reel, line 1286: the context the transfer is paced under
TransferKey(page_id) == "global"

\* mutant: only a failure of the transport ends the upload
TransferFailed_TransportOnly(status) == status = 0 - 1

\* api_post_reel, lines 1288 and 1291: the transfer did not succeed
TransferFailed(status) == status = 0 - 1 \/ status >= 400

\* api_post_reel, lines 1289-1292: what is returned for a failed transfer
TransferFailure(status) ==
    IF status = 0 - 1 THEN ReelResult("REELS_RUPLOAD_EXCEPTION", 500)
                      ELSE ReelResult("REELS_RUPLOAD_FAILED", status)

\* mutant: the except clause is missing, the exception leaves the function
RequestExceptionResult_Unhandled == Raised

\* lines 208-209, 232-233, 256-257: ({"error": str(e)}, 500)
RequestExceptionResult == Result("transport", 500, 0)

\* ----------------------------------------------------------------- actions
\* the ticks that pass before a call is made: a number of ticks, or the time
\* the cooldown still has to run (the call is made the moment it ends)
UntilCooldownEnds == 0 - 1

GapTicks(gap) ==
    IF gap = UntilCooldownEnds THEN Max(0, Secs(cooldown_until) - now) ELSE gap

Return(t, res) ==
    /\ result' = [result EXCEPT ![t] = res]
    /\ pc' = [pc EXCEPT ![t] = "idle"]

\* mutant: the global slot is taken before the cooldown is read
GraphEnter_StampFirst(t, ctx, gap) ==
    /\ calls' = calls + 1
    /\ now' = now + GapTicks(gap)
    /\ exchanges' = [exchanges EXCEPT ![t] = 0]
    /\ resp' = [resp EXCEPT ![t] = NoResp]
    /\ call' = [call EXCEPT ![t] = [ctx_key |-> ctx, attempts |-> 0, entered_at |-> now',
                                    entered_cooldown |-> cooldown_until,
                                    first |-> NoResp]]
    /\ tkey' = [tkey EXCEPT ![t] = "global"]
    /\ LET rem == respect_cooldown(cooldown_until, now')
       IN  IF rem > 0
           THEN /\ Return(t, RateLimit(rem))
                /\ last_call_ts' = Stamp("global", last_call_ts, now')
           ELSE /\ pc' = [pc EXCEPT ![t] = "throttle_read"]
                /\ UNCHANGED <<result, last_call_ts>>
    /\ UNCHANGED <<cooldown_until, last_usage, wake, issue_ts, issued, handled>>

\* entry of graph_get / graph_post / graph_post_multipart (lines 188-193, 212-217,
\* 236-241): the call arrives gap ticks after the last event
GraphEnter(t, ctx, gap) ==
    /\ calls' = calls + 1
    /\ now' = now + GapTicks(gap)
    /\ exchanges' = [exchanges EXCEPT ![t] = 0]
    /\ resp' = [resp EXCEPT ![t] = NoResp]
    /\ call' = [call EXCEPT ![t] = [ctx_key |-> ctx, attempts |-> 0, entered_at |-> now',
                                    entered_cooldown |-> cooldown_until,
                                    first |-> NoResp]]
    /\ tkey' = [tkey EXCEPT ![t] = "global"]
    /\ LET rem == respect_cooldown(cooldown_until, now')
       IN  IF rem > 0
           THEN Return(t, RateLimit(rem))
           ELSE /\ pc' = [pc EXCEPT ![t] = "throttle_read"]
                /\ UNCHANGED result
    /\ UNCHANGED <<settings, wake, issue_ts, issued, handled>>

\* the three entry points differ in the encoding and the timeout of the exchange
graph_get(t, ctx, gap, budget) ==
    /\ pc[t] = "idle"
    /\ calls < budget
    /\ GraphEnter(t, ctx, gap)
    /\ UNCHANGED others

graph_post(t, ctx, gap, budget) ==
    /\ pc[t] = "idle"
    /\ calls < budget
    /\ GraphEnter(t, ctx, gap)
    /\ UNCHANGED others

graph_post_multipart(t, ctx, gap, budget) ==
    /\ pc[t] = "idle"
    /\ calls < budget
    /\ GraphEnter(t, ctx, gap)
    /\ UNCHANGED others

\* _wait_throttle, lines 117-126: read the timestamps, compute the delay
wait_throttle_read(t) ==
    /\ pc[t] = "throttle_read"
    /\ LET sleep_for == SleepFor(tkey[t], last_call_ts, now)
       IN  /\ wake' = [wake EXCEPT ![t] = now + sleep_for]
           /\ pc' = [pc EXCEPT ![t] = IF sleep_for > 0 THEN "throttle_sleep"
                                                       ELSE "throttle_stamp"]
    /\ UNCHANGED <<now, settings, call, tkey, resp, result, calls, probes, others>>

\* _wait_throttle, line 127: pytime.sleep(sleep_for)
wait_throttle_sleep(t) ==
    /\ pc[t] = "throttle_sleep"
    /\ now' = Max(now, wake[t])
    /\ pc' = [pc EXCEPT ![t] = "throttle_stamp"]
    /\ UNCHANGED <<settings, locals, result, calls, probes, others>>

\* _wait_throttle, lines 128-129, and the caller's next step (lines 196-198)
wait_throttle_stamp(t) ==
    /\ pc[t] = "throttle_stamp"
    /\ last_call_ts' = Stamp(tkey[t], last_call_ts, now)
    /\ IF tkey[t] = "global" /\ call[t].ctx_key # NoCtx
       THEN /\ tkey' = [tkey EXCEPT ![t] = call[t].ctx_key]
            /\ pc' = [pc EXCEPT ![t] = "throttle_read"]
       ELSE /\ pc' = [pc EXCEPT ![t] = "exchange"]
            /\ UNCHANGED tkey
    /\ UNCHANGED <<now, cooldown_until, last_usage, call, wake, resp, result, calls,
                   probes, others>>

\* the transport's record of an exchange issued at t_now for context ctx
Issue(t, ctx, attempt, t_now) ==
    [at |-> t_now, ctx |-> ctx, cooldown |-> cooldown_until, attempt |-> attempt,
     since_any |-> IF issue_ts["global"] = 0 THEN -1 ELSE t_now - issue_ts["global"],
     since_ctx |-> IF ctx = NoCtx \/ issue_ts[IF ctx = NoCtx THEN "global" ELSE ctx] = 0
                   THEN -1 ELSE t_now - issue_ts[ctx],
     thread |-> t]

\* requests.get / requests.post (lines 198, 222, 246): the exchange is issued
\* now; the upstream answers with r, or the transport fails (lines 208-209)
exchange(t, rs) ==
    /\ pc[t] = "exchange"
    /\ issued' = Issue(t, call[t].ctx_key, call[t].attempts, now)
    /\ issue_ts' = [k \in Keys |->
                      IF k = "global" \/ k = call[t].ctx_key THEN now ELSE issue_ts[k]]
    /\ exchanges' = [exchanges EXCEPT ![t] = @ + 1]
    /\ \E r \in rs \cup {TransportFailure} :
         /\ resp' = [resp EXCEPT ![t] = r]
         /\ call' = [call EXCEPT ![t].first = IF call[t].attempts = 0 THEN r ELSE @]
         /\ IF r = TransportFailure
            THEN Return(t, RequestExceptionResult)
            ELSE /\ pc' = [pc EXCEPT ![t] = "handle"]
                 /\ UNCHANGED result
    /\ UNCHANGED <<now, settings, tkey, wake, calls, handled, others>>

\* lines 199-207 with _handle_429_and_maybe_retry (lines 176-185)
handle_response(t) ==
    /\ pc[t] = "handle"
    /\ LET r == resp[t]
           cu1 == update_usage_and_cooldown(cooldown_until, r, now)
           ra == ParseRetryAfter(r.retry_after)
       IN  /\ last_usage' = <<r.app, r.page>>
           /\ handled' = [at |-> IntSec(now), before |-> cooldown_until]
           /\ IF r.status = 429
              THEN /\ cooldown_until' = Cooldown429(cu1, ra, now)
                   /\ IF ShouldRetry(call[t].attempts, ra)
                      THEN IF RetrySleep(ra) < 0
                           THEN \* time.sleep of a negative length: ValueError
                                /\ Return(t, Raised)
                                /\ UNCHANGED wake
                           ELSE /\ wake' = [wake EXCEPT ![t] = now + Secs(RetrySleep(ra))]
                                /\ pc' = [pc EXCEPT ![t] = "retry_sleep"]
                                /\ UNCHANGED result
                      ELSE /\ Return(t, RateLimit(ra))
                           /\ UNCHANGED wake
              ELSE /\ cooldown_until' = cu1
                   /\ UNCHANGED wake
                   /\ IF r.status >= 400
                      THEN Return(t, Result(IF r.parseable THEN "upstream" ELSE "wrapped",
                                            r.status, 0))
                      ELSE IF r.parseable
                           THEN Return(t, Result("ok", 200, 0))
                           ELSE \* r.json() fails: a RequestException in recent
                                \* releases of requests, a plain ValueError before
                                \/ Return(t, RequestExceptionResult)
                                \/ Return(t, Raised)
    /\ UNCHANGED <<now, last_call_ts, call, tkey, resp, calls, exchanges, issue_ts,
                   issued, others>>

\* line 183 and the loop's continue (lines 202, 226, 250)
retry_sleep(t) ==
    /\ pc[t] = "retry_sleep"
    /\ now' = Max(now, wake[t])
    /\ call' = [call EXCEPT ![t].attempts = @ + 1]
    /\ tkey' = [tkey EXCEPT ![t] = "global"]
    /\ pc' = [pc EXCEPT ![t] = "throttle_read"]
    /\ UNCHANGED <<settings, wake, resp, result, calls, probes, others>>

\* the steps of caller t: at most budget calls in the run, drawn from ctxs and
\* gaps (the ticks between the last event and the call), the upstream's
\* answers drawn from rs
Step(t, rs, ctxs, gaps, budget) ==
    \/ \E ctx \in ctxs, gap \in gaps : graph_get(t, ctx, gap, budget)
    \/ \E ctx \in ctxs, gap \in gaps : graph_post(t, ctx, gap, budget)
    \/ \E ctx \in ctxs, gap \in gaps : graph_post_multipart(t, ctx, gap, budget)
    \/ wait_throttle_read(t)
    \/ wait_throttle_sleep(t)
    \/ wait_throttle_stamp(t)
    \/ exchange(t, rs)
    \/ handle_response(t)
    \/ retry_sleep(t)

\* one caller, its calls made one after another, at once or a tick later
Next == Step(1, Responses, Contexts, {0, 1}, MaxCalls)

Spec == Init /\ [][Next]_vars

\* ------------------------------------------------- the governor on its own
\* answers that let a run go on: a success, and 429s with a short hint
PaceResponses ==
    { Response(200, Absent, NoUsage, TRUE), Response(429, Seconds(3), NoUsage, TRUE) }

\* a call arrives at once, a tick later, or at the very moment the cooldown
\* runs out
PaceGaps == {0, 1, UntilCooldownEnds}

PaceNext == Step(1, PaceResponses, Contexts, PaceGaps, MaxPaceCalls)

PaceSpec == Init /\ [][PaceNext]_vars

\* ------------------------------------------------- two concurrent handlers
\* the code takes no lock: the steps of _wait_throttle of two request handlers
\* interleave freely
ConcResponses ==
    { Response(200, Absent, NoUsage, TRUE), Response(429, Absent, NoUsage, TRUE) }

ConcNext == \E t \in Threads : Step(t, ConcResponses, {NoCtx, "page:1"}, {0}, MaxConcCalls)

ConcSpec == Init /\ [][ConcNext]_vars

\* -------------------------------------------------- the tracker on its own
AppUsageHeaders ==
    {Absent, Malformed}
    \cup {Usage(cc, tt, ct) : cc \in {0, 79, 80, 90}, tt \in {0, 89}, ct \in {0, 90}}

PageUsageHeaders == {Absent, Malformed, Usage(0, 79, 0), Usage(0, 0, 85), Usage(95, 0, 0)}

TrackerResponses ==
    {Response(200, Absent, <<a, p>>, TRUE) : a \in AppUsageHeaders, p \in PageUsageHeaders}

\* _update_usage_and_cooldown(r), lines 148-167
record_response(t, r) ==
    /\ resp' = [resp EXCEPT ![t] = r]
    /\ last_usage' = <<r.app, r.page>>
    /\ handled' = [at |-> IntSec(now), before |-> cooldown_until]
    /\ cooldown_until' = update_usage_and_cooldown(cooldown_until, r, now)
    /\ UNCHANGED <<now, last_call_ts, pc, call, tkey, wake, result, calls, exchanges,
                   issue_ts, issued, others>>

\* the clock between two responses
tick ==
    /\ now < Secs(StartSec) + MaxTicks
    /\ now' = now + 1
    /\ UNCHANGED <<settings, pc, locals, result, calls, probes, others>>

TrackerNext ==
    \/ \E r \in TrackerResponses : record_response(1, r)
    \/ tick

TrackerSpec == Init /\ [][TrackerNext]_vars

\* --------------------------------------------------- the credential resolver
\* get_page_access_token(page_id, user_token), lines 311-321: the environment
\* map, then the persisted store, then the call of GET me/accounts
ResolveEnter(t, page_id) ==
    /\ resolves' = resolves + 1
    /\ LET mp == env_get_tokens(env).mapping
           hit == LocalHit(mp, store, page_id)
           begun == [NoResolve EXCEPT !.page = page_id, !.before = store,
                                      !.loaded_at = saves]
       IN  IF hit # "none"
           THEN /\ resolver' = [resolver EXCEPT ![t] =
                                   [begun EXCEPT !.pc = "done", !.hit = hit,
                                                 !.ret = IF hit = "env" THEN mp[page_id]
                                                                        ELSE store[page_id]]]
                /\ UNCHANGED <<now, settings, pc, locals, result, calls, probes>>
           ELSE /\ resolver' = [resolver EXCEPT ![t] =
                                   [begun EXCEPT !.pc = "discover", !.netcalls = 1]]
                /\ GraphEnter(t, NoCtx, 0)
    /\ UNCHANGED <<guard_vars, env, store, saves, lookup>>

get_page_access_token(t, page_id, budget) ==
    /\ resolver[t].pc \in {"idle", "done"}
    /\ pc[t] = "idle"
    /\ resolves < budget
    /\ ResolveEnter(t, page_id)
    /\ UNCHANGED reel
    /\ UNCHANGED <<post, gate>>

\* get_page_access_token, lines 321-329: the answer of GET me/accounts
discovery_return(t) ==
    /\ resolver[t].pc = "discover"
    /\ pc[t] = "idle"
    /\ IF result[t] = Raised
       THEN \* the exception of graph_get passes through
            /\ resolver' = [resolver EXCEPT ![t].pc = "done", ![t].raised = TRUE]
            /\ UNCHANGED <<store, saves>>
       ELSE IF result[t].status = 200
       THEN \E body \in AccountBodies :
                LET found == Found(body.data)
                    saving == found # NoPages
                IN  IF body.dict
                    THEN \* the snapshot loaded at line 317, its pages replaced,
                         \* is written back whatever the file holds by now
                         /\ store' = StoreAfterDiscovery(store, found)
                         /\ saves' = IF saving THEN saves + 1 ELSE saves
                         /\ resolver' = [resolver EXCEPT
                                ![t].pc = "done", ![t].body = body,
                                ![t].ret = found[resolver[t].page],
                                ![t].hit = IF found[resolver[t].page] # NoToken
                                           THEN "live" ELSE "none",
                                ![t].saved = saving,
                                ![t].stale = saving /\ saves # resolver[t].loaded_at]
                    ELSE /\ resolver' = [resolver EXCEPT ![t].pc = "done", ![t].body = body]
                         /\ UNCHANGED <<store, saves>>
       ELSE /\ resolver' = [resolver EXCEPT ![t].pc = "done"]
            /\ UNCHANGED <<store, saves>>
    /\ UNCHANGED <<now, settings, pc, locals, result, calls, probes, guard_vars, env,
                   resolves, lookup, reel>>
    /\ UNCHANGED <<post, gate>>

\* the answers of the upstream to GET me/accounts
ResolverResponses ==
    { Response(200, Absent, NoUsage, TRUE), Response(200, Absent, NoUsage, FALSE),
      Response(400, Absent, NoUsage, TRUE), Response(429, Seconds(6), NoUsage, TRUE),
      Response(429, Seconds(3), NoUsage, TRUE), Response(429, Seconds(0 - 1), NoUsage, TRUE) }

ResolverNext ==
    \/ \E page_id \in Pages : get_page_access_token(1, page_id, MaxResolves)
    \/ wait_throttle_read(1)
    \/ wait_throttle_sleep(1)
    \/ wait_throttle_stamp(1)
    \/ exchange(1, ResolverResponses)
    \/ handle_response(1)
    \/ retry_sleep(1)
    \/ discovery_return(1)

\* a process started with some PAGE_TOKENS and some tokens.json
ResolverInit ==
    /\ ProcessInit
    /\ env \in EnvConfigs
    /\ store \in Stores
    /\ ResolverIdle

ResolverSpec == ResolverInit /\ [][ResolverNext]_vars

\* ------------------------------------- the lookups of the loose credentials
\* _env_resolve_loose_tokens, lines 289-292: the first loose token of
\* PAGE_TOKENS, if any, is looked up with GET me
env_resolve_loose_tokens(t) ==
    /\ lookup[t].pc = "idle"
    /\ resolver[t].pc # "discover"
    /\ pc[t] = "idle"
    /\ IF env_get_tokens(env).loose_tokens = <<>>
       THEN /\ lookup' = [lookup EXCEPT ![t].pc = "done"]
            /\ UNCHANGED <<now, settings, pc, locals, result, calls, probes>>
       ELSE /\ lookup' = [lookup EXCEPT ![t].pc = "lookup", ![t].i = 1, ![t].lookups = 1]
            /\ GraphEnter(t, NoCtx, 0)
    /\ UNCHANGED <<guard_vars, env, store, resolver, resolves, saves, reel>>
    /\ UNCHANGED <<post, gate>>

\* lines 293-297: the answer of GET me; the next loose token, or the return
loose_lookup_return(t) ==
    /\ lookup[t].pc = "lookup"
    /\ pc[t] = "idle"
    /\ IF result[t] = Raised
       THEN \* the exception of graph_get passes through
            /\ lookup' = [lookup EXCEPT ![t].pc = "done", ![t].raised = TRUE]
            /\ UNCHANGED <<now, settings, pc, locals, result, calls, probes>>
       ELSE \E has_id \in BOOLEAN :
            LET got == IF result[t].status = 200 /\ has_id THEN 1 ELSE 0
            IN  IF lookup[t].i < Len(env_get_tokens(env).loose_tokens)
                THEN /\ lookup' = [lookup EXCEPT ![t].i = @ + 1, ![t].lookups = @ + 1,
                                               ![t].pages = @ + got]
                     /\ GraphEnter(t, NoCtx, 0)
                ELSE /\ lookup' = [lookup EXCEPT ![t].pc = "done", ![t].pages = @ + got]
                     /\ UNCHANGED <<now, settings, pc, locals, result, calls, probes>>
    /\ UNCHANGED <<guard_vars, env, store, resolver, resolves, saves, reel>>
    /\ UNCHANGED <<post, gate>>

\* the answers of the upstream to GET me/accounts and GET me
DiscoveryResponses ==
    { Response(200, Absent, NoUsage, TRUE),
      Response(200, Absent, <<Usage(85, 0, 0), Absent>>, TRUE),
      Response(429, Seconds(3), NoUsage, TRUE), Response(429, Seconds(6), NoUsage, TRUE) }

\* one handler: resolutions and a listing of the loose credentials, one after
\* another
DiscoveryNext ==
    \/ \E page_id \in Pages :
          /\ lookup[1].pc # "lookup"
          /\ get_page_access_token(1, page_id, MaxResolves)
    \/ env_resolve_loose_tokens(1)
    \/ loose_lookup_return(1)
    \/ discovery_return(1)
    \/ wait_throttle_read(1)
    \/ wait_throttle_sleep(1)
    \/ wait_throttle_stamp(1)
    \/ exchange(1, DiscoveryResponses)
    \/ handle_response(1)
    \/ retry_sleep(1)

\* a process started with some PAGE_TOKENS and without tokens.json
DiscoveryInit ==
    /\ ProcessInit
    /\ env \in EnvConfigs
    /\ store = NoPages
    /\ ResolverIdle

DiscoverySpec == DiscoveryInit /\ [][DiscoveryNext]_vars

\* ------------------------------------------- two concurrent resolutions
\* get_page_access_token takes no lock: between the load_tokens of line 317 and
\* the save_tokens of line 327 lies the whole call of GET me/accounts
ConcResolverResponses ==
    { Response(200, Absent, NoUsage, TRUE), Response(429, Seconds(3), NoUsage, TRUE) }

\* two handlers, one resolution each, their steps interleaved
ConcResolverNext ==
    \E t \in Threads :
        \/ \E page_id \in Pages :
              /\ resolver[t].pc = "idle"
              /\ get_page_access_token(t, page_id, Cardinality(Threads))
        \/ wait_throttle_read(t)
        \/ wait_throttle_sleep(t)
        \/ wait_throttle_stamp(t)
        \/ exchange(t, ConcResolverResponses)
        \/ handle_response(t)
        \/ retry_sleep(t)
        \/ discovery_return(t)

ConcResolverSpec == Init /\ [][ConcResolverNext]_vars

\* ------------------------------------------------------- the reel upload
ReelDone(t, k, st) == reel' = [reel EXCEPT ![t].pc = "done", ![t].ret = ReelResult(k, st)]

\* api_post_reel, lines 1271-1274: the request arrives, with or without a user
\* token and a video file; the page credential is asked for
api_post_reel(t, page_id, logged_in, has_video) ==
    /\ reel[t].pc = "idle"
    /\ resolver[t].pc = "idle"
    /\ pc[t] = "idle"
    /\ IF logged_in
       THEN /\ reel' = [reel EXCEPT ![t] = [NoReel EXCEPT !.pc = "token", !.page = page_id,
                                                          !.has_video = has_video]]
            /\ ResolveEnter(t, page_id)
       ELSE /\ reel' = [reel EXCEPT ![t] = [NoReel EXCEPT !.pc = "done", !.page = page_id,
                                                          !.ret = ReelResult("NOT_LOGGED_IN", 401)]]
            /\ UNCHANGED <<now, settings, pc, locals, result, calls, probes, guard_vars,
                           resolver_vars>>
    /\ UNCHANGED <<post, gate>>

\* lines 1275-1279: the credential is back; reels_start
reel_start(t) ==
    /\ reel[t].pc = "token"
    /\ resolver[t].pc = "done"
    /\ IF resolver[t].raised \/ resolver[t].ret = NoToken \/ ~reel[t].has_video
       THEN /\ IF resolver[t].raised THEN ReelDone(t, "raised", 0)
               ELSE IF resolver[t].ret = NoToken THEN ReelDone(t, "NO_PAGE_TOKEN", 403)
               ELSE ReelDone(t, "MISSING_VIDEO", 400)
            /\ UNCHANGED <<now, settings, pc, locals, result, calls, probes>>
       ELSE /\ reel' = [reel EXCEPT ![t].pc = "start", ![t].starts = @ + 1]
            /\ GraphEnter(t, ctx_key_for_page(reel[t].page), 0)
    /\ UNCHANGED <<guard_vars, resolver_vars>>
    /\ UNCHANGED <<post, gate>>

\* lines 1280-1292: the answer of the start call; the binary transfer, after
\* _wait_throttle("global"), straight to the upload host
reel_transfer(t) ==
    /\ reel[t].pc = "start"
    /\ pc[t] = "idle"
    /\ IF result[t] = Raised
       THEN /\ ReelDone(t, "raised", 0)
            /\ UNCHANGED <<now, last_call_ts>>
       ELSE \E body \in StartBodies, readable \in BOOLEAN, status \in RuploadStatuses :
            LET started == [reel[t] EXCEPT !.st1 = result[t].status, !.start_body = body]
            IN
            IF StartFailed(result[t].status, body)
            THEN /\ reel' = [reel EXCEPT ![t] =
                      [started EXCEPT !.pc = "done",
                                      !.ret = ReelResult("REELS_START_FAILED",
                                                         result[t].status)]]
                 /\ UNCHANGED <<now, last_call_ts>>
            ELSE IF ~readable
            THEN \* file.stream.read() raises
                 /\ reel' = [reel EXCEPT ![t] =
                      [started EXCEPT !.pc = "done",
                                      !.ret = ReelResult("REELS_RUPLOAD_EXCEPTION", 500)]]
                 /\ UNCHANGED <<now, last_call_ts>>
            ELSE /\ now' = now + SleepFor(TransferKey(reel[t].page), last_call_ts, now)
                 /\ last_call_ts' = Stamp(TransferKey(reel[t].page), last_call_ts, now')
                 /\ LET sent == [started EXCEPT !.transfers = @ + 1, !.ru = status,
                                                !.transfer_at = now',
                                                !.transfer_cooldown = cooldown_until]
                    IN  reel' = [reel EXCEPT ![t] =
                                   IF TransferFailed(status)
                                   THEN [sent EXCEPT !.pc = "done",
                                                     !.ret = TransferFailure(status)]
                                   ELSE [sent EXCEPT !.pc = "transferred"]]
    /\ UNCHANGED <<cooldown_until, last_usage, pc, locals, result, calls, probes,
                   guard_vars, resolver_vars>>
    /\ UNCHANGED <<post, gate>>

\* line 1293: reels_finish
reel_finish(t) ==
    /\ reel[t].pc = "transferred"
    /\ reel' = [reel EXCEPT ![t].pc = "finish", ![t].finishes = @ + 1]
    /\ GraphEnter(t, ctx_key_for_page(reel[t].page), 0)
    /\ UNCHANGED <<guard_vars, resolver_vars>>
    /\ UNCHANGED <<post, gate>>

\* lines 1294-1297: the answer of the finish call; the read of the permalink
reel_permalink(t) ==
    /\ reel[t].pc = "finish"
    /\ pc[t] = "idle"
    /\ IF result[t] = Raised \/ result[t].status # 200
       THEN /\ IF result[t] = Raised THEN ReelDone(t, "raised", 0)
               ELSE reel' = [reel EXCEPT ![t].pc = "done", ![t].st3 = result[t].status,
                                         ![t].ret = ReelResult("REELS_FINISH_FAILED",
                                                               result[t].status)]
            /\ UNCHANGED <<now, settings, pc, locals, result, calls, probes>>
       ELSE \E is_dict \in BOOLEAN :
            IF is_dict
            THEN /\ reel' = [reel EXCEPT ![t].pc = "permalink", ![t].st3 = 200,
                                         ![t].permalinks = @ + 1]
                 /\ GraphEnter(t, ctx_key_for_page(reel[t].page), 0)
            ELSE \* fin_res.get raises, the except clause of line 1300 passes
                 /\ reel' = [reel EXCEPT ![t].pc = "done", ![t].st3 = 200,
                                         ![t].ret = ReelResult("ok", 200)]
                 /\ UNCHANGED <<now, settings, pc, locals, result, calls, probes>>
    /\ UNCHANGED <<guard_vars, resolver_vars>>
    /\ UNCHANGED <<post, gate>>

\* lines 1298-1301: whatever the read of the permalink gave
reel_return(t) ==
    /\ reel[t].pc = "permalink"
    /\ pc[t] = "idle"
    /\ reel' = [reel EXCEPT ![t].pc = "done", ![t].permalink = result[t],
                            ![t].ret = ReelResult("ok", 200)]
    /\ UNCHANGED <<now, settings, pc, locals, result, calls, probes, guard_vars,
                   resolver_vars>>
    /\ UNCHANGED <<post, gate>>

\* the answers of the upstream to the calls of a reel upload
ReelResponses ==
    { Response(200, Absent, NoUsage, TRUE), Response(400, Absent, NoUsage, TRUE),
      Response(200, Absent, <<Usage(85, 0, 0), Absent>>, TRUE),
      Response(429, Seconds(3), NoUsage, TRUE), Response(429, Seconds(6), NoUsage, TRUE),
      Response(429, Seconds(0 - 1), NoUsage, TRUE) }

\* one request handled by one handler
ReelNext ==
    \/ \E page_id \in Pages, logged_in \in BOOLEAN, has_video \in BOOLEAN :
          api_post_reel(1, page_id, logged_in, has_video)
    \/ discovery_return(1)
    \/ reel_start(1)
    \/ reel_transfer(1)
    \/ reel_finish(1)
    \/ reel_permalink(1)
    \/ reel_return(1)
    \/ wait_throttle_read(1)
    \/ wait_throttle_sleep(1)
    \/ wait_throttle_stamp(1)
    \/ exchange(1, ReelResponses)
    \/ handle_response(1)
    \/ retry_sleep(1)

\* a process started with page 1 in PAGE_TOKENS, or without PAGE_TOKENS
ReelInit ==
    /\ ProcessInit
    /\ env \in {e \in EnvConfigs : e.form \in {"empty", "json"}}
    /\ store = NoPages
    /\ ResolverIdle

ReelSpec == ReelInit /\ [][ReelNext]_vars

\* the handler runs on its own thread until it returns
ReelLiveSpec == ReelInit /\ [][ReelNext]_vars /\ WF_vars(ReelNext)

\* ------------------------------------------------------ the duplicate guard
\* _recent_content_guard(kind, key, content, within_sec), lines 135-143, called
\* gap ticks after the last event
\* what the call made at t_now returns: an entry of the triple is in the
\* pruned log
GuardDup(kind, key, content, within_sec, t_now) ==
    LET pruned == Prune(recent_posts, IntSec(t_now), within_sec)
    IN  \E i \in 1..Len(pruned) : Matches(pruned[i], kind, key, hash_content(content))

\* the whole call, made at t_now by one handler at a time
GuardCall(kind, key, content, within_sec, t_now) ==
    LET now_s == IntSec(t_now)
        h == hash_content(content)
        pruned == Prune(recent_posts, now_s, within_sec)
        dup == GuardDup(kind, key, content, within_sec, t_now)
        x == Triple(kind, key, content)
    IN  /\ recent_posts' =
              Record(pruned, dup, [ts |-> now_s, type |-> kind, key |-> key,
                                   content_hash |-> h])
        /\ guard' = [n |-> guard.n + 1, kind |-> kind, key |-> key,
                     content |-> content, at |-> t_now, ret |-> dup,
                     prev |-> accepted[x]]
        /\ accepted' = IF dup THEN accepted ELSE [accepted EXCEPT ![x] = t_now]

recent_content_guard(kind, key, content, within_sec, gap) ==
    /\ guard.n < MaxGuardCalls
    /\ now' = now + gap
    /\ GuardCall(kind, key, content, within_sec, now')
    /\ UNCHANGED <<settings, pc, locals, result, calls, probes, resolver_vars, reel,
                   gcall, post, gate>>

\* a submission follows the last one at once, when the window has just run
\* out, or a tick after that
GuardGaps == {0, Secs(WITHIN_SEC), Secs(WITHIN_SEC) + 1}

GuardNext ==
    \E kind \in Kinds, key \in Pages, content \in Contents, gap \in GuardGaps :
        recent_content_guard(kind, key, content, WITHIN_SEC, gap)

GuardSpec == Init /\ [][GuardNext]_vars

\* ------------------------------------------------------- the text post
\* the messages of a request body: one with surrounding blanks, one of blanks
PostMessages == { <<"a">>, <<" ", "a", " ">>, <<" ">> }

PostResult(k, st) == [kind |-> k, status |-> st]

PostDone(t, k, st) == post' = [post EXCEPT ![t].pc = "done", ![t].ret = PostResult(k, st)]

\* api_post_to_page, lines 1203-1210: the request arrives gap ticks after the
\* last event; the user token, the message, the duplicate guard
api_post_to_page(t, page_id, logged_in, message, gap) ==
    /\ post[t].pc \in {"idle", "done"}
    /\ pc[t] = "idle"
    /\ post[t].n < MaxPosts
    /\ now' = now + gap
    /\ LET msg == Strip(message)
           begun == [NoPost EXCEPT !.n = post[t].n + 1, !.page = page_id,
                                   !.message = msg, !.at = now', !.calls_at = calls,
                                   !.last = post[t].ret]
       IN  IF ~logged_in \/ msg = <<>>
           THEN /\ post' = [post EXCEPT ![t] =
                       [begun EXCEPT !.pc = "done",
                                     !.ret = IF ~logged_in
                                             THEN PostResult("NOT_LOGGED_IN", 401)
                                             ELSE PostResult("EMPTY_MESSAGE", 400)]]
                /\ UNCHANGED <<recent_posts, guard, accepted>>
           ELSE /\ GuardCall("post", page_id, msg, WITHIN_SEC, now')
                /\ post' = [post EXCEPT ![t] =
                       IF GuardDup("post", page_id, msg, WITHIN_SEC, now')
                       THEN [begun EXCEPT !.pc = "done",
                                          !.prev = accepted[Triple("post", page_id, msg)],
                                          !.ret = PostResult("DUPLICATE_MESSAGE", 429)]
                       ELSE [begun EXCEPT !.pc = "guarded",
                                          !.prev = accepted[Triple("post", page_id, msg)]]]
    /\ UNCHANGED <<settings, pc, locals, result, calls, probes, gcall, resolver_vars,
                   reel, gate>>

\* line 1211: the page credential is asked for
post_resolve(t) ==
    /\ post[t].pc = "guarded"
    /\ post' = [post EXCEPT ![t].pc = "token"]
    /\ ResolveEnter(t, post[t].page)
    /\ UNCHANGED <<reel, gate>>

\* lines 1212-1213: the credential is back; the message is published
post_publish(t) ==
    /\ post[t].pc = "token"
    /\ resolver[t].pc = "done"
    /\ IF resolver[t].raised \/ resolver[t].ret = NoToken
       THEN /\ IF resolver[t].raised THEN PostDone(t, "raised", 0)
               ELSE PostDone(t, "NO_PAGE_TOKEN", 403)
            /\ UNCHANGED <<now, settings, pc, locals, result, calls, probes>>
       ELSE /\ post' = [post EXCEPT ![t].pc = "publish"]
            /\ GraphEnter(t, ctx_key_for_page(post[t].page), 0)
    /\ UNCHANGED <<guard_vars, resolver_vars, reel, gate>>

\* lines 1214-1216: the answer of the publish call; the read of the permalink
post_permalink(t) ==
    /\ post[t].pc = "publish"
    /\ pc[t] = "idle"
    /\ IF result[t] = Raised
       THEN /\ PostDone(t, "raised", 0)
            /\ UNCHANGED <<now, settings, pc, locals, result, calls, probes>>
       ELSE \E has_id \in BOOLEAN :
            IF result[t].status = 200 /\ has_id
            THEN /\ post' = [post EXCEPT ![t].pc = "permalink"]
                 /\ GraphEnter(t, ctx_key_for_page(post[t].page), 0)
            ELSE /\ PostDone(t, result[t].kind, result[t].status)
                 /\ UNCHANGED <<now, settings, pc, locals, result, calls, probes>>
    /\ UNCHANGED <<guard_vars, resolver_vars, reel, gate>>

\* lines 1217-1220: whatever the read of the permalink gave
post_return(t) ==
    /\ post[t].pc = "permalink"
    /\ pc[t] = "idle"
    /\ PostDone(t, "ok", 200)
    /\ UNCHANGED <<now, settings, pc, locals, result, calls, probes, guard_vars,
                   resolver_vars, reel, gate>>

\* the answers of the upstream to the calls of a text post
PostResponses ==
    { Response(200, Absent, NoUsage, TRUE), Response(400, Absent, NoUsage, TRUE),
      Response(429, Seconds(3), NoUsage, TRUE) }

\* a request follows the last one at once, or when the window has run out
PostGaps == {0, Secs(WITHIN_SEC) + TicksPerSec}

\* one handler, its requests handled one after another
PostNext ==
    \/ \E page_id \in Pages, logged_in \in BOOLEAN, message \in PostMessages,
          gap \in PostGaps : api_post_to_page(1, page_id, logged_in, message, gap)
    \/ post_resolve(1)
    \/ discovery_return(1)
    \/ post_publish(1)
    \/ post_permalink(1)
    \/ post_return(1)
    \/ wait_throttle_read(1)
    \/ wait_throttle_sleep(1)
    \/ wait_throttle_stamp(1)
    \/ exchange(1, PostResponses)
    \/ handle_response(1)
    \/ retry_sleep(1)

\* a process started with page 1 in PAGE_TOKENS, or without PAGE_TOKENS
PostInit ==
    /\ ProcessInit
    /\ env \in {e \in EnvConfigs : e.form \in {"empty", "json"}}
    /\ store = NoPages
    /\ ResolverIdle

PostSpec == PostInit /\ [][PostNext]_vars

\* ------------------------------------------------------------ the PIN gate
\* mutant: the gate does not read the session
RequirePin_NoSession(access_pin, path, pin_ok) ==
    /\ access_pin # <<>>
    /\ Len(path) >= 2 /\ path[1] = "api"
    /\ path \notin PinAllowlist

\* _require_pin_for_api, lines 60-71: the request is answered PIN_REQUIRED
RequirePin(access_pin, path, pin_ok) ==
    /\ access_pin # <<>>
    /\ Len(path) >= 2 /\ path[1] = "api"
    /\ path \notin PinAllowlist
    /\ ~pin_ok

\* mutant: any PIN that is not empty is taken
PinAccepted_NotEmpty(pin, access_pin) == pin # <<>>

\* api_pin_login, line 84
PinAccepted(pin, access_pin) == pin # <<>> /\ pin = access_pin

Answer(path, body, kind, status, reached) ==
    [path |-> path, body |-> body, kind |-> kind, status |-> status, reached |-> reached]

PinRequired(path, body) ==
    gate' = [gate EXCEPT !.n = @ + 1,
                         !.last = Answer(path, body, "PIN_REQUIRED", 401, FALSE)]

\* everything a request to the PIN gate leaves alone
GateFrame ==
    UNCHANGED <<now, settings, pc, locals, result, calls, probes, guard_vars,
                resolver_vars, reel, post>>

\* POST /api/pin/login, lines 77-87
api_pin_login(body) ==
    /\ gate.n < MaxGateRequests
    /\ IF RequirePin(gate.access_pin, PinLoginPath, gate.pin_ok)
       THEN PinRequired(PinLoginPath, body)
       ELSE LET pin == Strip(body.pin)
                seen == Append(gate.events, [path |-> PinLoginPath, body |-> body])
            IN  IF ~body.ok
                THEN gate' = [gate EXCEPT !.n = @ + 1, !.events = seen,
                                !.last = Answer(PinLoginPath, body, "raised", 0, TRUE)]
                ELSE IF gate.access_pin = <<>>
                THEN gate' = [gate EXCEPT !.n = @ + 1, !.events = seen, !.pin_ok = TRUE,
                                !.last = Answer(PinLoginPath, body, "ok", 200, TRUE)]
                ELSE IF PinAccepted(pin, gate.access_pin)
                THEN gate' = [gate EXCEPT !.n = @ + 1, !.events = seen, !.pin_ok = TRUE,
                                !.last = Answer(PinLoginPath, body, "ok", 200, TRUE)]
                ELSE gate' = [gate EXCEPT !.n = @ + 1, !.events = seen,
                                !.last = Answer(PinLoginPath, body, "INVALID_PIN", 403,
                                                TRUE)]
    /\ GateFrame

\* POST /api/pin/logout, lines 89-92
api_pin_logout ==
    /\ gate.n < MaxGateRequests
    /\ IF RequirePin(gate.access_pin, PinLogoutPath, gate.pin_ok)
       THEN PinRequired(PinLogoutPath, NoPinBody)
       ELSE gate' = [gate EXCEPT !.n = @ + 1, !.pin_ok = FALSE,
                        !.events = Append(@, [path |-> PinLogoutPath, body |-> NoPinBody]),
                        !.last = Answer(PinLogoutPath, NoPinBody, "ok", 200, TRUE)]
    /\ GateFrame

\* GET /api/pin/status, lines 73-75
api_pin_status ==
    /\ gate.n < MaxGateRequests
    /\ IF RequirePin(gate.access_pin, PinStatusPath, gate.pin_ok)
       THEN PinRequired(PinStatusPath, NoPinBody)
       ELSE gate' = [gate EXCEPT !.n = @ + 1,
                        !.last = Answer(PinStatusPath, NoPinBody,
                                        IF gate.pin_ok THEN "ok" ELSE "not ok", 200, TRUE)]
    /\ GateFrame

\* a request to another path: _require_pin_for_api, then the handler of the
\* path, which leaves pin_ok alone
other_request(path) ==
    /\ gate.n < MaxGateRequests
    /\ IF RequirePin(gate.access_pin, path, gate.pin_ok)
       THEN PinRequired(path, NoPinBody)
       ELSE gate' = [gate EXCEPT !.n = @ + 1,
                        !.last = Answer(path, NoPinBody, "handled", 0, TRUE)]
    /\ GateFrame

GateNext ==
    \/ \E body \in LoginBodies : api_pin_login(body)
    \/ api_pin_logout
    \/ api_pin_status
    \/ \E path \in OtherPaths : other_request(path)

\* a process started with some ACCESS_PIN, stripped at line 42; a new session
GateInit ==
    /\ ProcessInit
    /\ env = [form |-> "empty", items |-> <<>>]
    /\ store = NoPages
    /\ resolver = [t \in Threads |-> NoResolve]
    /\ resolves = 0
    /\ saves = 0
    /\ lookup = [t \in Threads |-> NoLoose]
    /\ reel = [t \in Threads |-> NoReel]
    /\ post = [t \in Threads |-> NoPost]
    /\ \E raw \in PinEnvs : gate = [NoGate EXCEPT !.access_pin = Strip(raw)]

GateSpec == GateInit /\ [][GateNext]_vars

\* ---------------------------------------- the guard called by two handlers
\* _recent_content_guard takes no lock; the interpreter can switch threads
\* between the statements of lines 136-143, and inside line 138 between the
\* building of the pruned list and its store into SETTINGS
\* line 142: the entry handler t appends for its submission
GuardCallEntry(t) ==
    [ts |-> gcall[t].now_s, type |-> gcall[t].kind, key |-> gcall[t].key,
     content_hash |-> hash_content(gcall[t].content)]

\* lines 136-137: the clock is read, the content hashed
guard_enter(t, kind, key, content) ==
    /\ gcall[t].pc = "idle"
    /\ gcall' = [gcall EXCEPT ![t] = [NoGuardCall EXCEPT !.pc = "prune", !.kind = kind,
                                                         !.key = key, !.content = content,
                                                         !.now_s = IntSec(now)]]
    /\ UNCHANGED <<now, settings, pc, locals, result, calls, probes, recent_posts, guard,
                   accepted, resolver_vars, reel>>
    /\ UNCHANGED <<post, gate>>

\* line 138, right-hand side: the list of the fresh entries is built
guard_prune(t) ==
    /\ gcall[t].pc = "prune"
    /\ gcall' = [gcall EXCEPT ![t].pc = "replace",
                              ![t].kept = Prune(recent_posts, gcall[t].now_s, WITHIN_SEC)]
    /\ UNCHANGED <<now, settings, pc, locals, result, calls, probes, recent_posts, guard,
                   accepted, resolver_vars, reel>>
    /\ UNCHANGED <<post, gate>>

\* line 138, the store: the list built replaces the log
guard_replace(t) ==
    /\ gcall[t].pc = "replace"
    /\ recent_posts' = gcall[t].kept
    /\ gcall' = [gcall EXCEPT ![t].pc = "scan"]
    /\ UNCHANGED <<now, settings, pc, locals, result, calls, probes, guard, accepted,
                   resolver_vars, reel>>
    /\ UNCHANGED <<post, gate>>

\* lines 139-141: the scan of the log as it is now
guard_scan(t) ==
    /\ gcall[t].pc = "scan"
    /\ LET h == hash_content(gcall[t].content)
           dup == \E i \in 1..Len(recent_posts) :
                      Matches(recent_posts[i], gcall[t].kind, gcall[t].key, h)
       IN  gcall' = [gcall EXCEPT ![t].pc = IF dup THEN "done" ELSE "append",
                                  ![t].ret = dup]
    /\ UNCHANGED <<now, settings, pc, locals, result, calls, probes, recent_posts, guard,
                   accepted, resolver_vars, reel>>
    /\ UNCHANGED <<post, gate>>

\* lines 142-143: the submission is appended to the log as it is now
guard_append(t) ==
    /\ gcall[t].pc = "append"
    /\ recent_posts' = Record(recent_posts, FALSE, GuardCallEntry(t))
    /\ gcall' = [gcall EXCEPT ![t].pc = "done"]
    /\ UNCHANGED <<now, settings, pc, locals, result, calls, probes, guard, accepted,
                   resolver_vars, reel>>
    /\ UNCHANGED <<post, gate>>

\* two handlers, one submission each, their steps interleaved
ConcGuardNext ==
    \E t \in Threads :
        \/ \E kind \in Kinds, key \in Pages, content \in Contents :
              guard_enter(t, kind, key, content)
        \/ guard_prune(t)
        \/ guard_replace(t)
        \/ guard_scan(t)
        \/ guard_append(t)

ConcGuardSpec == Init /\ [][ConcGuardNext]_vars

\* ------------------------------------------- answers with unusable telemetry
\* usage headers the tracker cannot use: none, not JSON, a JSON object without
\* the fields, a JSON object with a field that is not a number
UnusableUsageCases ==
    { <<Absent, Absent>>, <<Malformed, Absent>>, <<Absent, Malformed>>,
      <<Usage(0, 0, 0), Absent>>, <<NonNumeric, Absent>>, <<Absent, NonNumeric>> }

TelemetryResponses ==
    { Response(st, Absent, us, TRUE) : st \in {200, 400}, us \in UnusableUsageCases }
    \cup { Response(429, Seconds(n), us, TRUE) : n \in {3, 6}, us \in UnusableUsageCases }
    \cup { Response(200, Absent, <<Usage(95, 0, 0), Absent>>, TRUE) }

TelemetryNext == Step(1, TelemetryResponses, {NoCtx}, {0}, MaxCalls)

TelemetrySpec == Init /\ [][TelemetryNext]_vars

\* ------------------------------------------------------------------ claims
\* the largest of the three utilisation percentages of a usage header
ClaimTop(u) ==
    CHOOSE m \in {u.call_count, u.total_time, u.total_cputime} :
        \A x \in {u.call_count, u.total_time, u.total_cputime} : m >= x

\* what a call returns when r is the last response it handles
OutcomesOf(r) ==
    IF r = TransportFailure THEN {Result("transport", 500, 0)}
    ELSE IF r.status = 429 THEN {RateLimit(ParseRetryAfter(r.retry_after))}
    ELSE IF r.status >= 400
         THEN {Result(IF r.parseable THEN "upstream" ELSE "wrapped", r.status, 0)}
    ELSE IF r.parseable THEN {Result("ok", 200, 0)}
    ELSE {Result("transport", 500, 0), Raised}

\* C1: in a run of calls made one after another, an exchange is issued at
\* least global_min_interval after the previous exchange of any context, and
\* at least per_page_min_interval after the previous exchange of the same
\* page context; the retry exchange after a 429 is an exchange like any other.
C1_SequentialSpacing ==
    /\ issued.since_any # -1 => issued.since_any >= Secs(GLOBAL_MIN_INTERVAL)
    /\ issued.since_ctx # -1 => issued.since_ctx >= Secs(PER_PAGE_MIN_INTERVAL)

\* C1 witness: the retry exchange of a later call on a page context, issued
\* after an earlier exchange of that context
C1_Witness ==
    /\ issued.ctx \in PageKeys
    /\ issued.attempt = 1
    /\ issued.since_ctx >= Secs(PER_PAGE_MIN_INTERVAL)
    /\ issued.since_any >= Secs(GLOBAL_MIN_INTERVAL)
    /\ calls >= 2

\* C2: with two request handlers running concurrently, no exchange is issued
\* less than global_min_interval after the previous exchange, and none less
\* than per_page_min_interval after the previous exchange of its page context.
C2_ConcurrentSpacing ==
    /\ issued.since_any \notin 0..(Secs(GLOBAL_MIN_INTERVAL) - 1)
    /\ issued.since_ctx \notin 0..(Secs(PER_PAGE_MIN_INTERVAL) - 1)

\* C3: a call entered while now < cooldown_until returns
\* ({error: RATE_LIMIT, retry_after: cooldown_until - now}, 429), now being the
\* whole-second clock reading of _respect_cooldown, and issues no exchange.
C3_CooldownRejectsAtEntry ==
    \A t \in Threads :
        call[t].entered_at < Secs(call[t].entered_cooldown) =>
            /\ pc[t] = "idle"
            /\ result[t] = [kind |-> "RATE_LIMIT", status |-> 429,
                            retry_after |-> call[t].entered_cooldown
                                            - (call[t].entered_at \div TicksPerSec)]
            /\ exchanges[t] = 0

\* C3 witness: a call rejected at entry half a second into a second, with the
\* remaining cooldown counted from the whole second
C3_Witness ==
    /\ pc[1] = "idle"
    /\ call[1].entered_at < Secs(call[1].entered_cooldown)
    /\ call[1].entered_at % TicksPerSec # 0
    /\ result[1].kind = "RATE_LIMIT"
    /\ exchanges[1] = 0

\* C4 as stated: no exchange is ever issued while now < cooldown_until, the
\* retry exchange after a 429 with a short hint included.
C4_NoExchangeDuringCooldown == issued.at >= Secs(issued.cooldown)

\* C4 amended: with one caller, the exchange of a first attempt is never issued
\* while now < cooldown_until; the retry exchange that follows a 429 with a
\* short hint is the one exchange issued during a cooldown (the cooldown that
\* very 429 has set).
C4_OnlyRetryDuringCooldown ==
    (issued.at < Secs(issued.cooldown)) <=> (issued.attempt = 1)

\* C4 witness: a retry exchange issued while the cooldown is active
C4_Witness ==
    /\ issued.attempt = 1
    /\ issued.at < Secs(issued.cooldown)
    /\ exchanges[1] = 2

\* C5: cooldown_until never decreases, whatever step is taken.
C5_CooldownNeverDecreases == [][cooldown_until' >= cooldown_until]_vars

\* C5 witness: a 429 handled while a later cooldown was already in place,
\* which the handler has kept
C5_Witness ==
    /\ resp[1].status = 429
    /\ pc[1] = "idle"
    /\ handled.before > handled.at + MIN_429_COOLDOWN
    /\ cooldown_until = handled.before

\* C6: recording a response whose usage header has top = max(call_count,
\* total_time, total_cputime): top >= 90 makes cooldown_until
\* max(previous, now + 300), 80 <= top < 90 makes it max(previous, now + 120),
\* top < 80 leaves it unchanged; for the app header and for the page header
\* (with both present, the larger top decides).
C6_UsageThresholds ==
    resp[1].status # 0 =>
        LET tops == {ClaimTop(h) : h \in {x \in {resp[1].app, resp[1].page} : x.kind = "json"}}
            top == IF tops = {} THEN 0 ELSE CHOOSE m \in tops : \A x \in tops : m >= x
            previous == handled.before
            t == handled.at
        IN  /\ top >= 90 =>
                cooldown_until = (IF previous >= t + 300 THEN previous ELSE t + 300)
            /\ (top >= 80 /\ top < 90) =>
                cooldown_until = (IF previous >= t + 120 THEN previous ELSE t + 120)
            /\ top < 80 => cooldown_until = previous

\* C6 witness: a page header with top 85 recorded over a shorter cooldown,
\* which is raised to now + 120
C6_Witness ==
    /\ resp[1].app = Absent
    /\ resp[1].page.kind = "json"
    /\ ClaimTop(resp[1].page) = 85
    /\ handled.before > 0
    /\ handled.before < handled.at + 120
    /\ cooldown_until = handled.at + 120

\* C7: a first response 429 with a hint <= 5 is followed by exactly one retry
\* and the call returns the outcome of the retry; with a hint > 5 the call
\* returns RATE_LIMIT with the hint and status 429 after that one exchange.
C7_ShortHintRetriesOnce ==
    \A t \in Threads :
        (pc[t] = "idle" /\ call[t].first.status = 429) =>
            LET hint == ParseRetryAfter(call[t].first.retry_after)
            IN  /\ hint <= 5 => (exchanges[t] = 2 /\ result[t] \in OutcomesOf(resp[t]))
                /\ hint > 5 => (exchanges[t] = 1 /\ result[t] = RateLimit(hint))

\* C8: a call issues at most two exchanges, and a 429 received on the retry
\* ends it with RATE_LIMIT whatever its hint.
C8_AtMostTwoExchanges ==
    \A t \in Threads :
        /\ exchanges[t] <= 2
        /\ call[t].attempts <= 1
        /\ (pc[t] \in {"idle", "retry_sleep"} /\ exchanges[t] = 2 /\ resp[t].status = 429) =>
               (pc[t] = "idle" /\ result[t].kind = "RATE_LIMIT" /\ result[t].status = 429)

\* C8 witness: a second consecutive 429 with a short hint, answered with
\* RATE_LIMIT
C8_Witness ==
    /\ pc[1] = "idle"
    /\ exchanges[1] = 2
    /\ resp[1].status = 429
    /\ resp[1].retry_after = Seconds(3)
    /\ result[1] = RateLimit(3)

\* C9 as stated: a 429 whose Retry-After is absent or malformed is answered
\* with RATE_LIMIT, retry_after = 300, and no retry, also on the first attempt.
C9_AbsentOrMalformedIs300 ==
    \A t \in Threads :
        (/\ call[t].first.status = 429
         /\ call[t].first.retry_after.kind \in {"absent", "malformed"}
         /\ pc[t] # "handle") =>
            (pc[t] = "idle" /\ exchanges[t] = 1 /\ result[t] = RateLimit(300))

\* C9 amended: a 429 whose Retry-After is present but no integer is answered
\* with RATE_LIMIT, retry_after = 300, and no retry, also on the first attempt;
\* a 429 without a Retry-After header has the hint 0: on the first attempt the
\* call sleeps one second and retries once, on the retry it returns RATE_LIMIT
\* with retry_after = 0.
C9_MalformedIs300AbsentIs0 ==
    \A t \in Threads :
        /\ (/\ call[t].first.status = 429
            /\ call[t].first.retry_after.kind = "malformed"
            /\ pc[t] # "handle") =>
               (pc[t] = "idle" /\ exchanges[t] = 1 /\ result[t] = RateLimit(300))
        /\ (/\ call[t].first.status = 429
            /\ call[t].first.retry_after.kind = "absent"
            /\ pc[t] # "handle") =>
               /\ pc[t] = "retry_sleep" => wake[t] = now + Secs(1)
               /\ pc[t] = "idle" => exchanges[t] = 2
        /\ (pc[t] = "idle" /\ exchanges[t] = 2 /\ resp[t].status = 429) =>
               /\ resp[t].retry_after.kind = "malformed" => result[t] = RateLimit(300)
               /\ resp[t].retry_after.kind = "absent" => result[t] = RateLimit(0)

\* C9 witness: two 429s without Retry-After: one retry, then RATE_LIMIT with 0
C9_Witness ==
    /\ pc[1] = "idle"
    /\ call[1].first.status = 429
    /\ call[1].first.retry_after = Absent
    /\ exchanges[1] = 2
    /\ resp[1].status = 429
    /\ resp[1].retry_after = Absent
    /\ result[1] = RateLimit(0)

\* C10: once a 429 has been handled at time t (whole seconds), with or without
\* a retry to follow, cooldown_until >= t + max(hint, 120), hint being the
\* parsed Retry-After value.
C10_CooldownAfter429 ==
    \A t \in Threads :
        (resp[t].status = 429 /\ pc[t] # "handle") =>
            LET hint == ParseRetryAfter(resp[t].retry_after)
            IN  /\ cooldown_until >= handled.at + hint
                /\ cooldown_until >= handled.at + 120

\* C10 witness: a 429 with a short hint handled, the retry pending, the
\* cooldown at t + 120
C10_Witness ==
    /\ pc[1] = "retry_sleep"
    /\ resp[1].status = 429
    /\ resp[1].retry_after = Seconds(5)
    /\ cooldown_until = handled.at + 120

\* C11: graph_get, graph_post and graph_post_multipart never raise to their
\* caller: whatever the status, the Retry-After value, the body and the
\* transport do, the call returns a (body, status) pair.
C11_NeverRaises == \A t \in Threads : result[t] # Raised

\* C12: a transport failure during an exchange ends the call at once with
\* ({error: message}, 500) and no further exchange, on the first attempt and
\* on the retry that follows a 429 with a short hint.
C12_TransportFailureIsTerminal ==
    \A t \in Threads :
        resp[t] = TransportFailure =>
            /\ pc[t] = "idle"
            /\ result[t] = [kind |-> "transport", status |-> 500, retry_after |-> 0]
            /\ exchanges[t] = call[t].attempts + 1

\* C12 witness: the transport fails on the retry after a 429 with a short hint
C12_Witness ==
    /\ resp[1] = TransportFailure
    /\ call[1].first.status = 429
    /\ call[1].attempts = 1
    /\ exchanges[1] = 2
    /\ result[1].status = 500

\* the entry a _recent_content_guard call appends when it accepts
GuardEntry ==
    [ts |-> guard.at \div TicksPerSec, type |-> guard.kind, key |-> guard.key,
     content_hash |-> hash_content(guard.content)]

\* C13 as stated: the first submission of a triple returns false; a later one
\* with the same kind, key and stripped content returns true as long as it is
\* made within within_sec of the accepted one; one made more than within_sec
\* after the accepted one returns false again and is recorded anew.
C13_WindowFromAcceptance ==
    guard.n > 0 =>
        /\ guard.prev = Never => ~guard.ret
        /\ (guard.prev # Never /\ guard.at - guard.prev <= Secs(WITHIN_SEC)) => guard.ret
        /\ (guard.prev # Never /\ guard.at - guard.prev > Secs(WITHIN_SEC)) =>
               /\ ~guard.ret
               /\ recent_posts[Len(recent_posts)] = GuardEntry

\* C13 amended: the window is counted on the whole-second clock readings: a
\* later submission returns true as long as int(now) is at most within_sec
\* after int(time of the accepted one), and false again (recorded anew) once
\* it is more than within_sec after it.
C13_WindowInWholeSeconds ==
    guard.n > 0 =>
        LET elapsed == (guard.at \div TicksPerSec) - (guard.prev \div TicksPerSec)
        IN  /\ guard.prev = Never => ~guard.ret
            /\ (guard.prev # Never /\ elapsed <= WITHIN_SEC) => guard.ret
            /\ (guard.prev # Never /\ elapsed > WITHIN_SEC) =>
                   /\ ~guard.ret
                   /\ recent_posts[Len(recent_posts)] = GuardEntry

\* C13 witness: a submission accepted again after the window of the last
\* accepted one has run out, the content differing in surrounding blanks only
C13_Witness ==
    /\ guard.prev # Never
    /\ (guard.at \div TicksPerSec) - (guard.prev \div TicksPerSec) > WITHIN_SEC
    /\ ~guard.ret
    /\ guard.content = <<" ", "a", " ">>
    /\ recent_posts = <<GuardEntry>>

\* C14: a submission is flagged only on a match of the whole triple: while no
\* submission of the same kind, the same key and the same stripped content
\* has been accepted, it is not flagged, whatever else the log holds.
C14_WholeTripleMatch ==
    guard.n > 0 =>
        /\ guard.prev = Never => ~guard.ret
        /\ guard.ret =>
               \E i \in 1..Len(recent_posts) :
                   /\ recent_posts[i].type = guard.kind
                   /\ recent_posts[i].key = guard.key
                   /\ recent_posts[i].content_hash = hash_content(guard.content)

\* C14 witness: a submission accepted while the log holds the same content
\* under another kind and under another key
C14_Witness ==
    /\ guard.n > 0
    /\ ~guard.ret
    /\ Len(recent_posts) = 3
    /\ \E i \in 1..2 : /\ recent_posts[i].type # guard.kind
                         /\ recent_posts[i].key = guard.key
                         /\ recent_posts[i].content_hash = hash_content(guard.content)
    /\ \E i \in 1..2 : /\ recent_posts[i].type = guard.kind
                         /\ recent_posts[i].key # guard.key
                         /\ recent_posts[i].content_hash = hash_content(guard.content)

C16_DiscoveryMerges ==
    \A t \in Threads :
        LET r == resolver[t]
            data == r.body.data
            listed(q) == \E i \in 1..Len(data) :
                             data[i].id = q /\ data[i].access_token # NoToken
        IN  (r.pc = "done" /\ r.netcalls = 1 /\ ~r.raised /\ result[t].status = 200
             /\ r.body.dict) =>
                /\ \A i \in 1..Len(data) :
                       data[i].access_token # NoToken =>
                           store[data[i].id] = data[i].access_token
                /\ \A q \in Pages : ~listed(q) => store[q] = r.before[q]
                /\ \A i \in 1..Len(data) :
                       (data[i].id = r.page /\ data[i].access_token # NoToken) =>
                           r.ret = data[i].access_token

\* C17: a page id that is a key of the store's page map stays a key of it,
\* whatever get_page_access_token calls follow.
C17_StoreOnlyGrows ==
    [][\A p \in Pages : store[p] # NoToken => store'[p] # NoToken]_vars

C19_NotFoundNeverRaises ==
    \A t \in Threads :
        LET r == resolver[t]
        IN  (r.pc = "done" /\ r.netcalls = 1 /\ r.hit # "live") =>
                (~r.raised /\ r.ret = NoToken)

\* C20: in the reel upload, a binary transfer answered with a non-success
\* status, or failed in transport, ends the upload with REELS_RUPLOAD_FAILED /
\* REELS_RUPLOAD_EXCEPTION, and no finish call and no permalink read is issued.
C20_FailedTransferStops ==
    \A t \in Threads :
        (reel[t].transfers > 0 /\ (reel[t].ru = 0 - 1 \/ reel[t].ru >= 400)) =>
            /\ reel[t].pc = "done"
            /\ reel[t].ret.kind = IF reel[t].ru = 0 - 1 THEN "REELS_RUPLOAD_EXCEPTION"
                                                        ELSE "REELS_RUPLOAD_FAILED"
            /\ reel[t].finishes = 0
            /\ reel[t].permalinks = 0

\* C20 witness: the start call succeeded, the transfer was answered with 429
C20_Witness ==
    /\ reel[1].pc = "done"
    /\ reel[1].starts = 1
    /\ reel[1].transfers = 1
    /\ reel[1].ru = 429
    /\ reel[1].ret = [kind |-> "REELS_RUPLOAD_FAILED", status |-> 429]
    /\ reel[1].finishes = 0

\* C21: in the reel upload, a start call that does not return status 200 with
\* a video_id in its body ends the upload with REELS_START_FAILED, and neither
\* the binary transfer nor the finish call is issued.
C21_FailedStartStops ==
    \A t \in Threads :
        (/\ reel[t].starts > 0
         /\ reel[t].pc # "start"
         /\ ~(reel[t].st1 = 200 /\ reel[t].start_body = "video_id")) =>
            /\ reel[t].pc = "done"
            /\ reel[t].ret.kind = "REELS_START_FAILED"
            /\ reel[t].transfers = 0
            /\ reel[t].finishes = 0

\* the phases a run has gone through, in the order of lines 1279, 1287, 1293
C22_Order ==
    \A t \in Threads :
        /\ reel[t].starts <= 1 /\ reel[t].transfers <= 1 /\ reel[t].finishes <= 1
        /\ reel[t].transfers > 0 =>
              reel[t].starts = 1 /\ reel[t].st1 = 200 /\ reel[t].start_body = "video_id"
        /\ reel[t].finishes > 0 =>
              reel[t].transfers = 1 /\ reel[t].ru >= 0 /\ reel[t].ru < 400
        /\ (reel[t].pc = "done" /\ reel[t].ret.kind = "ok") =>
              reel[t].finishes = 1 /\ reel[t].st3 = 200
        /\ reel[t].pc = "done" => reel[t].ret.kind # "none"

\* C22: in every run of the reel upload the transfer is issued only after the
\* start call succeeded, the finish call only after the transfer succeeded,
\* each of the three at most once, and the run always ends, finished (the 200
\* answer) or failed (any other end).
C22_PhasesInOrder == [](C22_Order) /\ <>(reel[1].pc = "done")

\* a run that went through the three phases once each and finished
C22_Witness ==
    /\ reel[1].pc = "done" /\ reel[1].ret = ReelResult("ok", 200)
    /\ reel[1].starts = 1 /\ reel[1].transfers = 1 /\ reel[1].finishes = 1

\* C23: once the finish call of the reel upload returned status 200, the
\* handler returns the finish result with status 200 whatever the read of the
\* permalink gave; a finish call that does not return 200 ends the upload with
\* REELS_FINISH_FAILED and the permalink is not read.
C23_PermalinkIsBestEffort ==
    \A t \in Threads :
        (reel[t].finishes > 0 /\ reel[t].pc # "finish") =>
            IF reel[t].st3 = 200
            THEN reel[t].pc = "done" => reel[t].ret = ReelResult("ok", 200)
            ELSE /\ reel[t].pc = "done"
                 /\ reel[t].ret.kind = "REELS_FINISH_FAILED"
                 /\ reel[t].permalinks = 0

\* C24: the binary transfer of the reel upload is not started while a cooldown
\* is active: a transfer was issued only at a time that was not before the
\* cooldown_until in force at that moment.
C24_TransferRespectsCooldown ==
    \A t \in Threads :
        reel[t].transfers > 0 =>
            respect_cooldown(reel[t].transfer_cooldown, reel[t].transfer_at) = 0

\* C25: every response a call receives is fed to the usage tracker before its
\* status is looked at: handling a 429 or another status >= 400 whose usage
\* header carries top >= 90 (top >= 80) leaves cooldown_until at
\* max(previous, now + 300) (max(previous, now + 120)) at least, and at exactly
\* that value, as after a 200, when the status is not 429.
C25_TrackerFedWhateverTheStatus ==
    [][(pc[1] = "handle" /\ resp[1].status >= 400) =>
        LET tops == {ClaimTop(h) : h \in {x \in {resp[1].app, resp[1].page} : x.kind = "json"}}
            top == IF tops = {} THEN 0 ELSE CHOOSE m \in tops : \A x \in tops : m >= x
            t == now \div TicksPerSec
            add == IF top >= 90 THEN 300 ELSE 120
            asFor200 == IF top < 80 \/ cooldown_until >= t + add
                        THEN cooldown_until ELSE t + add
        IN  IF resp[1].status = 429
            THEN cooldown_until' >= asFor200
            ELSE cooldown_until' = asFor200]_vars

\* a 429 with a hint of 6 s and a page usage of 95 has been handled: the
\* cooldown stands at now + 300, beyond the 120 s the 429 itself gives
C25_Witness ==
    /\ resp[1].status = 429 /\ resp[1].page.kind = "json"
    /\ pc[1] = "idle" /\ result[1].kind = "RATE_LIMIT"
    /\ handled.before < handled.at
    /\ cooldown_until = handled.at + 300

\* C26: handling a response whose usage headers are absent, are not valid
\* JSON, or lack numeric fields leaves cooldown_until as the same response
\* without these headers leaves it (unchanged, but for the cooldown a 429 sets
\* by itself), and the call returns what it returns without the headers.
C26_UnusableTelemetryIgnored ==
    [][(pc[1] = "handle" /\ <<resp[1].app, resp[1].page>> \in UnusableUsageCases) =>
        LET t == now \div TicksPerSec
            hint == resp[1].retry_after.val
            floor == t + (IF hint > 120 THEN hint ELSE 120)
            bare == [resp[1] EXCEPT !.app = Absent, !.page = Absent]
        IN  /\ cooldown_until' =
                  (IF resp[1].status = 429 /\ floor > cooldown_until
                   THEN floor ELSE cooldown_until)
            /\ pc'[1] = "idle" => result'[1] \in OutcomesOf(bare)]_vars

\* a 200 whose app usage header has a field that is not a number has been
\* handled while a cooldown was in place: the cooldown stands, the call returns
C26_Witness ==
    /\ resp[1].status = 200 /\ resp[1].app = NonNumeric
    /\ pc[1] = "idle" /\ result[1] = Result("ok", 200, 0)
    /\ handled.before > handled.at
    /\ cooldown_until = handled.before

\* C29: a guard call that returns true appends nothing and does not refresh
\* the timestamp of the matched entry (every entry of the log after the call
\* was in the log before it, timestamp included), so a submission is flagged
\* only within the window counted from the last accepted submission of its
\* triple, however many flagged resubmissions were made in between.
C29_FlaggedCallRecordsNothing ==
    /\ [](guard.ret =>
            (guard.at \div TicksPerSec) - (guard.prev \div TicksPerSec) <= WITHIN_SEC)
    /\ [][(guard'.n = guard.n + 1 /\ guard'.ret) =>
            /\ Len(recent_posts') <= Len(recent_posts)
            /\ \A i \in 1..Len(recent_posts') :
                   \E j \in 1..Len(recent_posts) : recent_posts[j] = recent_posts'[i]
            /\ accepted' = accepted]_vars

\* a third submission flagged at the very end of the window of the first one,
\* whose entry still carries the time of the first
C29_Witness ==
    /\ guard.n = 3 /\ guard.ret
    /\ (guard.at \div TicksPerSec) - (guard.prev \div TicksPerSec) = WITHIN_SEC
    /\ recent_posts = <<[GuardEntry EXCEPT !.ts = guard.prev \div TicksPerSec]>>

\* C30: after every guard call made with window w at time now, every entry of
\* the log has now - ts <= w (on the whole-second clock of the entries), and
\* no two entries of the log carry the same (kind, key, content hash).
C30_LogWithinWindowNoDuplicates ==
    guard.n > 0 =>
        /\ \A i \in 1..Len(recent_posts) :
               (guard.at \div TicksPerSec) - recent_posts[i].ts <= WITHIN_SEC
        /\ \A i, j \in 1..Len(recent_posts) :
               (/\ recent_posts[i].type = recent_posts[j].type
                /\ recent_posts[i].key = recent_posts[j].key
                /\ recent_posts[i].content_hash = recent_posts[j].content_hash) => i = j

\* a call that pruned the two entries of the log, one of them of its own
\* triple, and recorded the submission anew
C30_Witness ==
    /\ guard.n = 3 /\ ~guard.ret
    /\ guard.prev # Never /\ accepted[Triple("photo_caption", "2", <<"b">>)] # Never
    /\ guard.kind = "post"
    /\ recent_posts = <<GuardEntry>>

\* C27: when two handlers call the guard concurrently with the same kind, key
\* and content and the log holds no matching entry, at most one of them gets
\* false; and the entry of a handler that got false is in the log, not lost
\* through the other handler's prune-and-replace.
C27_ConcurrentGuard ==
    /\ (/\ gcall[1].pc = "done" /\ gcall[2].pc = "done"
        /\ gcall[1].kind = gcall[2].kind /\ gcall[1].key = gcall[2].key
        /\ hash_content(gcall[1].content) = hash_content(gcall[2].content)) =>
            gcall[1].ret \/ gcall[2].ret
    /\ \A t \in Threads :
          (gcall[t].pc = "done" /\ ~gcall[t].ret) =>
              \E i \in 1..Len(recent_posts) : recent_posts[i] = GuardCallEntry(t)

\* C28: the load-modify-save cycle of get_page_access_token is atomic with
\* respect to a concurrent resolution: no resolution saves a store snapshot
\* that it loaded before another resolution's save.
C28_SaveFromCurrentSnapshot ==
    \A t \in Threads : ~resolver[t].stale

C33_TransferPacedGloballyOnly ==
    [][reel'[1].transfers = reel[1].transfers + 1 =>
        /\ now' >= last_call_ts["global"] + GLOBAL_MIN_INTERVAL * TicksPerSec
        /\ last_call_ts'["global"] = now'
        /\ \A p \in Pages :
              last_call_ts'[ctx_key_for_page(p)] = last_call_ts[ctx_key_for_page(p)]]_vars

\* a transfer issued one second after the start call, which was the last call
\* to stamp the context of the target page
C33_Witness ==
    /\ reel[1].transfers = 1 /\ reel[1].pc = "transferred"
    /\ last_call_ts["global"] = reel[1].transfer_at
    /\ last_call_ts[ctx_key_for_page(reel[1].page)] > 0
    /\ reel[1].transfer_at
         = last_call_ts[ctx_key_for_page(reel[1].page)] + GLOBAL_MIN_INTERVAL * TicksPerSec

\* C34: every completed _wait_throttle(key) stamps last_call_ts[key] and
\* last_call_ts["global"], so that in a run of calls made one after another
\* last_call_ts["global"] >= last_call_ts[k] for every context key k in every
\* state, each completed wait leaves both stamps at the present time, and no
\* entry of last_call_ts ever decreases.
C34_GlobalStampLeads ==
    /\ [](\A k \in Keys : last_call_ts["global"] >= last_call_ts[k])
    /\ [][/\ \A k \in Keys : last_call_ts'[k] >= last_call_ts[k]
          /\ (pc[1] = "throttle_stamp" /\ pc'[1] # "throttle_stamp") =>
                 /\ last_call_ts'[tkey[1]] = now
                 /\ last_call_ts'["global"] = now]_vars

\* a call without context made after a call on page 1: the stamp of "global"
\* has moved on, the one of the page has stayed
C34_Witness ==
    /\ calls = 2 /\ pc[1] = "idle"
    /\ last_call_ts["page:1"] > 0
    /\ last_call_ts["global"] > last_call_ts["page:1"]
    /\ last_call_ts["page:2"] = 0

\* C35: a gateway call with a page context key that is made when the previous
\* exchange of every context lies at least max(global_min_interval,
\* per_page_min_interval) in the past issues its exchange without any pacing
\* delay: the exchange of its first attempt is issued at the time of the call.
C35_IdleCallNotDelayed ==
    [][(/\ pc[1] = "exchange" /\ pc'[1] # "exchange"
        /\ call[1].attempts = 0
        /\ call[1].ctx_key \in PageKeys
        /\ \A k \in Keys :
              call[1].entered_at - issue_ts[k]
                >= TicksPerSec * (IF GLOBAL_MIN_INTERVAL > PER_PAGE_MIN_INTERVAL
                                  THEN GLOBAL_MIN_INTERVAL ELSE PER_PAGE_MIN_INTERVAL)) =>
            now = call[1].entered_at]_vars

\* C36: a gateway call that is rejected at entry because a cooldown is active
\* is over with its first step and changes no process state: last_call_ts
\* (every key), cooldown_until, last_usage and the fingerprint log are the same
\* after the call as before it.
C36_RejectedCallChangesNothing ==
    [][(calls' = calls + 1 /\ (now' \div TicksPerSec) < cooldown_until) =>
        /\ pc'[1] = "idle" /\ result'[1].kind = "RATE_LIMIT"
        /\ \A k \in Keys : last_call_ts'[k] = last_call_ts[k]
        /\ cooldown_until' = cooldown_until
        /\ last_usage' = last_usage
        /\ recent_posts' = recent_posts]_vars

\* a call on page 1 rejected during the cooldown a usage header has started,
\* the stamps being those of the call before
C36_Witness ==
    /\ calls = 2 /\ pc[1] = "idle" /\ exchanges[1] = 0
    /\ call[1].ctx_key = "page:1"
    /\ result[1].kind = "RATE_LIMIT"
    /\ last_usage # <<Absent, Absent>>
    /\ last_call_ts["global"] < call[1].entered_at

\* the log holds an entry for the message of the request of handler t
C37_Recorded(t) ==
    \E i \in 1..Len(recent_posts) :
        /\ recent_posts[i].type = "post"
        /\ recent_posts[i].key = post[t].page
        /\ recent_posts[i].content_hash = hash_content(post[t].message)

\* C37: the text post records the message in the duplicate guard before it
\* resolves the credential and before any upstream call, and the record stays
\* whatever the publish gives: a request for a message that a request for the
\* same page passed the guard with at most within_sec earlier, published or
\* not, is answered DUPLICATE_MESSAGE (429) without any upstream call.
C37_RecordedBeforePublish ==
    \A t \in Threads :
        /\ post[t].pc = "guarded" =>
              C37_Recorded(t) /\ calls = post[t].calls_at /\ resolver[t].pc # "discover"
        /\ (\/ post[t].pc \in {"token", "publish", "permalink"}
            \/ (post[t].pc = "done"
                /\ post[t].ret.kind \notin {"NOT_LOGGED_IN", "EMPTY_MESSAGE"})) =>
              C37_Recorded(t)
        /\ (/\ post[t].pc # "idle"
            /\ post[t].prev # Never
            /\ (post[t].at \div TicksPerSec) - (post[t].prev \div TicksPerSec)
                  <= WITHIN_SEC) =>
              /\ post[t].pc = "done"
              /\ post[t].ret = [kind |-> "DUPLICATE_MESSAGE", status |-> 429]
              /\ calls = post[t].calls_at

\* the message resubmitted, with other blanks around it, after a publish that
\* the upstream refused with a 429: rejected with no upstream call
C37_Witness ==
    /\ post[1].n = 2 /\ post[1].pc = "done"
    /\ post[1].last = [kind |-> "RATE_LIMIT", status |-> 429]
    /\ post[1].ret.kind = "DUPLICATE_MESSAGE"
    /\ calls = post[1].calls_at

\* the failure results of the three phases of the reel upload
C38_Failures ==
    {"REELS_START_FAILED", "REELS_RUPLOAD_FAILED", "REELS_RUPLOAD_EXCEPTION",
     "REELS_FINISH_FAILED"}

\* C38: every failure result of the reel upload is returned with a status of
\* 400 or more, and a status of 200 is returned only when the start, the
\* transfer and the finish all succeeded.
C38_FailureStatusNotSuccess ==
    \A t \in Threads :
        reel[t].pc = "done" =>
            /\ reel[t].ret.kind \in C38_Failures => reel[t].ret.status >= 400
            /\ reel[t].ret.status = 200 =>
                  /\ reel[t].ret.kind = "ok"
                  /\ ~StartFailed(reel[t].st1, reel[t].start_body)
                  /\ reel[t].transfers > 0
                  /\ reel[t].st3 = 200

\* C39: a rate limit met by the discovery call is reported as such: when the
\* page is in neither the environment map nor the store and GET me/accounts
\* ends RATE_LIMIT (refused by the cooldown, or answered 429), the text post
\* that asked for the credential ends with a RATE_LIMIT result of status 429,
\* not with a missing-credential result.
C39_DiscoveryRateLimitReported ==
    [][\A t \in Threads :
        (/\ post[t].pc = "token"
         /\ resolver[t].pc = "done"
         /\ resolver[t].netcalls = 1
         /\ result[t] # Raised
         /\ result[t].kind = "RATE_LIMIT"
         /\ post'[t].pc = "done") =>
            post'[t].ret = [kind |-> "RATE_LIMIT", status |-> 429]]_vars

\* the request was made to a path under /api/ outside the allowlist
C40_Gated(path) == Len(path) >= 2 /\ path[1] = "api" /\ path \notin PinAllowlist

\* the pin event is a login with the PIN of the server
C40_CorrectLogin(ev) ==
    ev.path = PinLoginPath /\ ev.body.ok /\ Strip(ev.body.pin) = gate.access_pin

\* some login with the PIN of the server has no logout after it
C40_LoggedIn(events) ==
    \E i \in 1..Len(events) :
        /\ C40_CorrectLogin(events[i])
        /\ \A j \in (i + 1)..Len(events) : events[j].path # PinLogoutPath

\* what a login, a logout and any other request do to the session flag
C40_Flag ==
    /\ (gate'.last.path = PinLoginPath /\ ~C40_CorrectLogin(gate'.last)) =>
          gate'.pin_ok = gate.pin_ok
    /\ gate'.last.path = PinLogoutPath => ~gate'.pin_ok

\* C40 as stated: with ACCESS_PIN configured, a request to a gated path reaches
\* its handler only if the most recent pin event of the session is a login
\* with the correct PIN, and is answered PIN_REQUIRED (401) otherwise; a login
\* with a wrong or empty PIN never sets the flag, logout always clears it.
C40_MostRecentPinEvent ==
    [][(gate.access_pin # <<>> /\ gate'.n = gate.n + 1) =>
        /\ C40_Gated(gate'.last.path) =>
              IF gate.events # <<>> /\ C40_CorrectLogin(gate.events[Len(gate.events)])
              THEN TRUE
              ELSE gate'.last.reached = FALSE /\ gate'.last.kind = "PIN_REQUIRED"
                   /\ gate'.last.status = 401
        /\ C40_Flag]_vars

\* C40, amended: with ACCESS_PIN configured, a request to a gated path reaches
\* its handler exactly when the session has made a login with the correct PIN
\* and no logout after it, and is answered PIN_REQUIRED (401) otherwise; a
\* login with a wrong or empty PIN leaves the flag as it is, set or not, and
\* logout always clears it.
C40_LoginUntilLogout ==
    [][(gate.access_pin # <<>> /\ gate'.n = gate.n + 1) =>
        /\ C40_Gated(gate'.last.path) =>
              IF C40_LoggedIn(gate.events)
              THEN gate'.last.reached
              ELSE gate'.last.reached = FALSE /\ gate'.last.kind = "PIN_REQUIRED"
                   /\ gate'.last.status = 401
        /\ gate'.pin_ok = C40_LoggedIn(gate'.events)
        /\ C40_Flag]_vars

\* a gated request reaches its handler after a login with the PIN followed by a
\* login with a wrong PIN
C40_Witness ==
    /\ gate.access_pin # <<>>
    /\ Len(gate.events) = 2
    /\ C40_CorrectLogin(gate.events[1])
    /\ gate.events[2].path = PinLoginPath /\ Strip(gate.events[2].body.pin) = <<"8">>
    /\ C40_Gated(gate.last.path)
    /\ gate.last.reached

====
